---- MODULE Spec2Model ----
(***************************************************************************)
(* A model of algo::deque (src/src/deque/deque.h): the two-level storage   *)
(* (a map of chunk pointers, fixed-size chunks of elements), the two       *)
(* cursors, and the public mutators with the allocation and constructor    *)
(* failures they can meet.                                                 *)
(*                                                                         *)
(* Representation.                                                         *)
(*   T*   a record [c, o]: chunk c (0 is no chunk), element offset o;      *)
(*        nullptr is [c |-> 0, o |-> 0].                                   *)
(*   T**  an integer: the slot's offset from data in the current map       *)
(*        array; data - 1 is -1 and data + num_chunks is num_chunks.       *)
(*        The variable data holds the identity of the map array.           *)
(*   map  the content of the map array, slots -1 .. num_chunks, each a     *)
(*        chunk number (slot i holds the T* [c |-> map[i], o |-> 0]).      *)
(*   heap the element allocator: heap[c] is <<>> while chunk c is not      *)
(*        allocated, else CHUNK_SIZE slots, 0 for raw memory and a value   *)
(*        for a constructed element.                                       *)
(* An operation is an operator from a deque record to a deque record; the  *)
(* record also carries fuel (the number of fallible calls that still       *)
(* succeed), threw (an exception is propagating), fault (undefined         *)
(* behaviour was executed), oob (the model's bounds were exceeded) and     *)
(* path (the branches taken).  Chunk numbers and the identity of the map   *)
(* array mean nothing beyond equality: every state is kept with its chunks *)
(* renumbered in order of mention and its map array named 1.              *)
(***************************************************************************)
EXTENDS Integers, Sequences, FiniteSets, TLC

CHUNK_SIZE == 2
CHUNK_PADDING == 2

\* Bounds of the model
MaxNumChunks == 9
NumChunkIds == 6
MaxVal == 1
MaxDistinct == 2
MaxInitN == 1
MaxFuel == 2
MaxSize == 3
MaxInsertSize == 7
MaxCount == 3
MaxListN == 4
MaxSlide == 2
MaxCtorN == 8
MaxAssignN == 4
MaxGrow == 13
MaxGrowChunks == 21
MaxGrowIds == 8
MaxCopyFuel == 5
MaxMoveN == 7

\* the fuel of a call in which no allocation and no constructor fails
NoFail == 0 - 1
Values == 1..MaxVal
\* values that tell the elements of a sequence apart
Distinct == 1..MaxDistinct
\* a value that no constructed sequence holds
Fresh == MaxDistinct + 1
ChunkIds == 1..MaxGrowIds

Min(a, b) == IF a <= b THEN a ELSE b

\* C++ integer division and remainder truncate toward zero
TruncDiv(a, b) == IF a >= 0 THEN a \div b ELSE -((-a) \div b)

------------------------------------------------------------------------------
\* Pointers to elements

NULL == [c |-> 0, o |-> 0]

ChunkPtr(c) == [c |-> c, o |-> 0]

PtrAdd(p, n) == [c |-> p.c, o |-> p.o + n]

\* chunks lie apart in memory, in the order of their numbers
Addr(p) == p.c * (2 * CHUNK_SIZE) + p.o

PtrDiff(a, b) == Addr(a) - Addr(b)

\* *p for a T** p: reading outside the map array yields no chunk
MapAt(m, i) == IF i \in DOMAIN m THEN m[i] ELSE 0

------------------------------------------------------------------------------
\* deque_iterator<T>

iterator(m, outer, inner) ==
    [outer_pointer |-> outer,
     inner_pointer |-> inner,
     chunk_begin   |-> ChunkPtr(MapAt(m, outer)),
     chunk_end     |-> PtrAdd(ChunkPtr(MapAt(m, outer)), CHUNK_SIZE)]

to_next_chunk(m, it) ==
    iterator(m, it.outer_pointer + 1, ChunkPtr(MapAt(m, it.outer_pointer + 1)))

to_prev_chunk(m, it) ==
    iterator(m, it.outer_pointer - 1,
             PtrAdd(ChunkPtr(MapAt(m, it.outer_pointer - 1)), CHUNK_SIZE))

\* ++it
IterNext(m, it) ==
    LET p == PtrAdd(it.inner_pointer, 1)
    IN  IF p = it.chunk_end
        THEN to_next_chunk(m, it)
        ELSE [it EXCEPT !.inner_pointer = p]

\* --it
IterPrev(m, it) ==
    LET j == IF it.inner_pointer = it.chunk_begin THEN to_prev_chunk(m, it) ELSE it
    IN  [j EXCEPT !.inner_pointer = PtrAdd(j.inner_pointer, -1)]

\* it + n, n of either sign
IterPlus(m, it, n) ==
    LET off == n + PtrDiff(it.inner_pointer, it.chunk_begin)
        q   == off \div CHUNK_SIZE
        r   == off % CHUNK_SIZE
        o   == it.outer_pointer + q
    IN  iterator(m, o, PtrAdd(ChunkPtr(MapAt(m, o)), r))

\* a - b
IterDiff(a, b) ==
    (a.outer_pointer - b.outer_pointer) * CHUNK_SIZE
    + PtrDiff(a.inner_pointer, a.chunk_begin)
    - PtrDiff(b.inner_pointer, b.chunk_begin)

------------------------------------------------------------------------------
\* The allocators and the element constructor

Stop(d) == d.threw \/ d.fault # "" \/ d.oob

\* the value of e under the name F takes it by: e is computed once
Bind(e, F(_)) == CHOOSE r \in {F(x) : x \in {e}} : TRUE

\* sequencing of two statements: F continues from the deque e leaves, unless e
\* threw, executed undefined behaviour or left the model's bounds
Then(e, F(_)) == CHOOSE r \in {IF Stop(x) THEN x ELSE F(x) : x \in {e}} : TRUE

\* catch (...) { F; throw; } around the statements that left e
Caught(e, F(_)) ==
    IF e.threw /\ e.fault = "" /\ ~e.oob
    THEN Bind(F([e EXCEPT !.threw = FALSE]), LAMBDA u : [u EXCEPT !.threw = TRUE])
    ELSE e

Fault(d, what) == IF d.fault = "" THEN [d EXCEPT !.fault = what] ELSE d

Throw(d) == [d EXCEPT !.threw = TRUE]

Mark(d, label) == [d EXCEPT !.path = @ \cup {label}]

Allocated(h) == {c \in ChunkIds : h[c] # <<>>}

RawChunk == [i \in 1..CHUNK_SIZE |-> 0]

\* the chunk the next successful alloc_traits::allocate returns
NewChunk(h) ==
    IF Allocated(h) = ChunkIds THEN 0
    ELSE CHOOSE c \in ChunkIds \ Allocated(h) :
            \A e \in ChunkIds \ Allocated(h) : c <= e

\* alloc_traits::allocate(allocator, CHUNK_SIZE<T>); the chunk is NewChunk(d.heap)
allocate(d) ==
    IF d.fuel = 0 THEN Throw(d)
    ELSE IF Cardinality(Allocated(d.heap)) >= (IF d.wide THEN MaxGrowIds ELSE NumChunkIds)
    THEN [d EXCEPT !.oob = TRUE, !.fuel = @ - 1]
    ELSE [d EXCEPT !.fuel = @ - 1, !.heap[NewChunk(d.heap)] = RawChunk]

\* alloc_traits::deallocate(allocator, chunk c, CHUNK_SIZE<T>)
deallocate(d, c) ==
    IF c \notin Allocated(d.heap)
    THEN Fault(d, "deallocate of a pointer that is not an allocated chunk")
    ELSE [d EXCEPT !.heap[c] = <<>>]

\* pointer_alloc_traits::allocate(pointer_allocator, n + 2)
allocate_map(d, n) ==
    IF d.fuel = 0 THEN Throw(d)
    ELSE IF n > (IF d.wide THEN MaxGrowChunks ELSE MaxNumChunks)
    THEN [d EXCEPT !.oob = TRUE, !.fuel = @ - 1]
    ELSE [d EXCEPT !.fuel = @ - 1]

ValidSlot(h, p) == p.c \in Allocated(h) /\ p.o \in 0..(CHUNK_SIZE - 1)

\* alloc_traits::construct(allocator, p, v); the constructor of a T that is
\* not trivially copyable may throw
construct(d, p, v) ==
    IF d.fuel = 0 /\ ~d.trivial THEN Throw(d)
    ELSE IF ~ValidSlot(d.heap, p)
    THEN Fault(d, "construct through a pointer to no element slot")
    ELSE IF d.heap[p.c][p.o + 1] # 0
    THEN Fault(d, "construct over a constructed element")
    ELSE [d EXCEPT !.fuel = IF d.trivial THEN @ ELSE @ - 1,
                   !.heap[p.c][p.o + 1] = v]

\* alloc_traits::destroy(allocator, p)
destroy_at(d, p) ==
    IF ~ValidSlot(d.heap, p)
    THEN Fault(d, "destroy through a pointer to no element slot")
    ELSE IF d.heap[p.c][p.o + 1] = 0
    THEN Fault(d, "destroy of raw memory")
    ELSE [d EXCEPT !.heap[p.c][p.o + 1] = 0]

\* *p = c for a T** p
MapStore(d, i, c) ==
    IF i \notin DOMAIN d.map
    THEN Fault(d, "store outside the map array")
    ELSE [d EXCEPT !.map[i] = c]

\* a loop that swaps the slots of the first range with those of the second
\* taken from its last slot backwards
SwapLoopMirrored(m, first, last, dest) ==
    LET RECURSIVE Go(_, _)
        Go(mm, i) ==
            IF first + i >= last THEN mm
            ELSE Bind([mm EXCEPT ![first + i] = mm[dest + (last - first) - 1 - i],
                                 ![dest + (last - first) - 1 - i] = mm[first + i]],
                      LAMBDA m2 : Go(m2, i + 1))
    IN  Go(m, 0)

\* the loop of std::swap_ranges, one std::iter_swap after the other; it is what
\* every implementation runs when the two ranges overlap as well
SwapLoop(m, first, last, dest) ==
    LET RECURSIVE Go(_, _)
        Go(mm, i) ==
            IF first + i >= last THEN mm
            ELSE Bind([mm EXCEPT ![first + i] = mm[dest + i],
                                 ![dest + i] = mm[first + i]],
                      LAMBDA m2 : Go(m2, i + 1))
    IN  Go(m, 0)

\* std::swap_ranges(first, last, dest) on map slots; the result pointer is
\* dest + (last - first)
swap_ranges(d, first, last, dest) ==
    IF first > last
    THEN Fault(d, "swap_ranges with first > last")
    ELSE IF first < last /\ ~({first, last - 1, dest, dest + (last - first) - 1}
                              \subseteq DOMAIN d.map)
    THEN Fault(d, "swap_ranges outside the map array")
    ELSE [d EXCEPT !.map = SwapLoop(d.map, first, last, dest)]

------------------------------------------------------------------------------
\* Construction

Blank(tr, f) ==
    [num_chunks |-> 0, begin_chunk |-> 0, end_chunk |-> 0, data |-> 1,
     map |-> [i \in (-1)..0 |-> 0],
     begin_iterator |-> iterator(<<>>, 0, NULL),
     end_iterator |-> iterator(<<>>, 0, NULL),
     heap |-> [c \in ChunkIds |-> <<>>],
     trivial |-> tr,
     fuel |-> f, threw |-> FALSE, fault |-> "", oob |-> FALSE, path |-> {},
     nm |-> <<>>, mr |-> <<>>, ret |-> <<>>, wide |-> FALSE,
     room |-> <<>>, gap |-> <<>>]

\* uninitialized_fill(p, p + cap, value, allocator) for p the start of chunk c:
\* on a throw the elements it constructed are destroyed again
filler(d, c, cap, v) ==
    LET RECURSIVE Go(_, _)
        Go(e, i) ==
            IF i >= cap THEN e
            ELSE Bind(construct(e, [c |-> c, o |-> i], v), LAMBDA e1 :
                    IF e1.threw THEN [e1 EXCEPT !.heap[c] = RawChunk]
                    ELSE IF Stop(e1) THEN e1
                    ELSE Go(e1, i + 1))
    IN  Go(d, 0)

\* the loop of fill_helper for a deque that holds no slot for end_iterator
FillLoopNoEndSlot(d, remain, v) ==
    LET RECURSIVE Go(_, _)
        Go(e, rem) ==
            IF rem <= 0 THEN e
            ELSE Bind(NewChunk(e.heap), LAMBDA c :
                 Then(allocate(e), LAMBDA e1 :
                 Then(MapStore(e1, e1.end_chunk, c), LAMBDA e2 :
                 Then(filler(e2, c, Min(CHUNK_SIZE, rem), v), LAMBDA e3 :
                 Go([e3 EXCEPT !.end_chunk = @ + 1], rem - Min(CHUNK_SIZE, rem))))))
    IN  Go(d, remain - 1)

\* the loop of fill_helper
FillLoop(d, remain, v) ==
    LET RECURSIVE Go(_, _)
        Go(e, rem) ==
            IF rem <= 0 THEN e
            ELSE Bind(NewChunk(e.heap), LAMBDA c :
                 Then(allocate(e), LAMBDA e1 :
                 Then(MapStore(e1, e1.end_chunk, c), LAMBDA e2 :
                 Then(filler(e2, c, Min(CHUNK_SIZE, rem - 1), v), LAMBDA e3 :
                 Go([e3 EXCEPT !.end_chunk = @ + 1], rem - Min(CHUNK_SIZE, rem))))))
    IN  Go(d, remain)

\* the catch block of fill_helper: the chunks of [begin_chunk, end_chunk) are
\* deallocated
FillUndo(d) ==
    LET RECURSIVE Go(_, _)
        Go(e, p) ==
            IF p >= e.end_chunk THEN e
            ELSE Then(deallocate(e, MapAt(e.map, p)), LAMBDA e1 : Go(e1, p + 1))
    IN  Go(d, d.begin_chunk)

\* the rest of fill_helper for a map array of nc slots: when the loop throws,
\* the cleaner frees the map array and no deque exists
FillMap(tr, nc, n, v, f) ==
    Then(allocate_map(Blank(tr, f), nc), LAMBDA d0 :
    Bind(Caught(FillLoop([d0 EXCEPT !.num_chunks = nc,
                                    !.map = [i \in (-1)..nc |-> 0],
                                    !.begin_chunk = CHUNK_PADDING \div 2,
                                    !.end_chunk = CHUNK_PADDING \div 2], n + 1, v),
                LAMBDA u : FillUndo(u)),
         LAMBDA d1 :
    IF d1.threw
    THEN [d1 EXCEPT !.num_chunks = 0, !.map = [i \in (-1)..0 |-> 0],
                    !.begin_chunk = 0, !.end_chunk = 0]
    ELSE
    Then(d1, LAMBDA d2 :
    Bind(iterator(d2.map, d2.begin_chunk, ChunkPtr(MapAt(d2.map, d2.begin_chunk))),
         LAMBDA bi :
    [d2 EXCEPT !.begin_iterator = bi,
               !.end_iterator = IterPlus(d2.map, bi, n)]))))

\* a fill_helper that rounds the number of chunks up
fill_helper_rounding_up(tr, n, v, f) ==
    FillMap(tr, CHUNK_PADDING + (n + CHUNK_SIZE + CHUNK_SIZE - 1) \div CHUNK_SIZE, n, v, f)

\* fill_helper(n, filler) with a filler that constructs copies of v
fill_helper(tr, n, v, f) ==
    FillMap(tr, CHUNK_PADDING + (n + CHUNK_SIZE) \div CHUNK_SIZE, n, v, f)

------------------------------------------------------------------------------
\* Observers

\* size() as the difference of the two inner pointers
size_by_pointers(d) ==
    PtrDiff(d.end_iterator.inner_pointer, d.begin_iterator.inner_pointer)

\* size()
size(d) == IterDiff(d.end_iterator, d.begin_iterator)

\* *(begin_iterator + i), 0 when the map slot holds no allocated chunk
ElemAt(d, i) ==
    LET it == IterPlus(d.map, d.begin_iterator, i)
        p  == it.inner_pointer
    IN  IF ValidSlot(d.heap, p) THEN d.heap[p.c][p.o + 1] ELSE 0

\* the elements read in order from begin_iterator to end_iterator
Elements(d) ==
    IF size(d) \in 0..(MaxNumChunks * CHUNK_SIZE)
    THEN [i \in 1..size(d) |-> ElemAt(d, i - 1)]
    ELSE <<>>

------------------------------------------------------------------------------
\* Ranges of elements

\* destroy(first, last, allocator)
destroy(d, first, last) ==
    LET n == IterDiff(last, first)
        RECURSIVE Go(_, _)
        Go(e, i) ==
            IF i >= n THEN e
            ELSE Then(destroy_at(e, IterPlus(e.map, first, i).inner_pointer),
                      LAMBDA e1 : Go(e1, i + 1))
    IN  IF n < 0 THEN Fault(d, "destroy of a range with first > last") ELSE Go(d, 0)

\* the construction of *dest from std::move(*src), which does not throw
move_construct(d, dest, src) ==
    IF ~ValidSlot(d.heap, src) \/ ~ValidSlot(d.heap, dest)
    THEN Fault(d, "move construction through a pointer to no element slot")
    ELSE IF d.heap[src.c][src.o + 1] = 0
    THEN Fault(d, "move construction from raw memory")
    ELSE IF d.heap[dest.c][dest.o + 1] # 0
    THEN Fault(d, "construct over a constructed element")
    ELSE [d EXCEPT !.heap[dest.c][dest.o + 1] = d.heap[src.c][src.o + 1]]

\* *dest = std::move(*src), which does not throw
move_assign(d, dest, src) ==
    IF ~ValidSlot(d.heap, src) \/ ~ValidSlot(d.heap, dest)
    THEN Fault(d, "assignment through a pointer to no element slot")
    ELSE IF d.heap[src.c][src.o + 1] = 0
    THEN Fault(d, "assignment from raw memory")
    ELSE IF d.heap[dest.c][dest.o + 1] = 0
    THEN Fault(d, "assignment to raw memory")
    ELSE [d EXCEPT !.heap[dest.c][dest.o + 1] = d.heap[src.c][src.o + 1]]

\* try_uninitialized_move<NoThrowMove>(first, last, dest, allocator) for a T
\* whose move constructor does not throw; the result is dest + (last - first)
try_uninitialized_move(d, first, last, dest) ==
    LET n == IterDiff(last, first)
        RECURSIVE Go(_, _)
        Go(e, i) ==
            IF i >= n THEN e
            ELSE Then(move_construct(e, IterPlus(e.map, dest, i).inner_pointer,
                                     IterPlus(e.map, first, i).inner_pointer),
                      LAMBDA e1 : Go(e1, i + 1))
    IN  IF n < 0 THEN Fault(d, "move of a range with first > last") ELSE Go(d, 0)

\* a std::move that assigns back to front
try_move_back_to_front(d, first, last, dest) ==
    LET n == IterDiff(last, first)
        RECURSIVE Go(_, _)
        Go(e, i) ==
            IF i < 0 THEN e
            ELSE Then(move_assign(e, IterPlus(e.map, dest, i).inner_pointer,
                                  IterPlus(e.map, first, i).inner_pointer),
                      LAMBDA e1 : Go(e1, i - 1))
    IN  IF n < 0 THEN Fault(d, "move of a range with first > last") ELSE Go(d, n - 1)

\* try_move<NoThrowMove>(first, last, dest): std::move, front to back
try_move(d, first, last, dest) ==
    LET n == IterDiff(last, first)
        RECURSIVE Go(_, _)
        Go(e, i) ==
            IF i >= n THEN e
            ELSE Then(move_assign(e, IterPlus(e.map, dest, i).inner_pointer,
                                  IterPlus(e.map, first, i).inner_pointer),
                      LAMBDA e1 : Go(e1, i + 1))
    IN  IF n < 0 THEN Fault(d, "move of a range with first > last") ELSE Go(d, 0)

\* std::memmove(dest, src, count * sizeof(T))
memmove(d, dest, src, count) ==
    IF count = 0 THEN d
    ELSE IF count < 0
    THEN Fault(d, "memmove of a negative length")
    ELSE IF ~(ValidSlot(d.heap, src) /\ ValidSlot(d.heap, PtrAdd(src, count - 1))
              /\ ValidSlot(d.heap, dest) /\ ValidSlot(d.heap, PtrAdd(dest, count - 1)))
    THEN Fault(d, "memmove outside a chunk")
    ELSE [d EXCEPT !.heap =
            [c \in ChunkIds |->
                IF c # dest.c THEN d.heap[c]
                ELSE [k \in 1..CHUNK_SIZE |->
                        IF k - 1 >= dest.o /\ k - 1 < dest.o + count
                        THEN d.heap[src.c][src.o + (k - 1 - dest.o) + 1]
                        ELSE d.heap[c][k]]]]

\* deque_memmove_helper(curr, dest, amount); x is [d, curr, dest], the deque
\* and the two iterators passed by reference
deque_memmove_helper(x, amount) ==
    LET space == CHUNK_SIZE
                 - PtrDiff(x.dest.inner_pointer,
                           ChunkPtr(MapAt(x.d.map, x.dest.outer_pointer)))
    IN  IF Stop(x.d) THEN x
        ELSE IF amount >= space
        THEN Bind([d    |-> memmove(x.d, x.dest.inner_pointer, x.curr.inner_pointer, space),
                   curr |-> [x.curr EXCEPT !.inner_pointer = PtrAdd(@, space)],
                   dest |-> to_next_chunk(x.d.map, x.dest)],
                  LAMBDA y :
                  [d    |-> IF Stop(y.d) THEN y.d
                            ELSE memmove(y.d, y.dest.inner_pointer, y.curr.inner_pointer,
                                         amount - space),
                   curr |-> y.curr,
                   dest |-> [y.dest EXCEPT !.inner_pointer = PtrAdd(@, amount - space)]])
        ELSE [d    |-> memmove(x.d, x.dest.inner_pointer, x.curr.inner_pointer, amount),
              curr |-> x.curr,
              dest |-> [x.dest EXCEPT !.inner_pointer = PtrAdd(@, amount)]]

\* deque_move_with_memmove(first, last, dest); the result is [d, curr, dest]
\* with dest the iterator returned
deque_move_with_memmove(d, first, last, dest) ==
    LET \* the whole chunks in between
        RECURSIVE Loop(_)
        Loop(x) ==
            IF x.curr.outer_pointer = last.outer_pointer \/ Stop(x.d) THEN x
            ELSE IF x.curr.outer_pointer > last.outer_pointer
            THEN [x EXCEPT !.d = Fault(@, "chunk walk past the last chunk")]
            ELSE LET space == CHUNK_SIZE
                              - PtrDiff(x.dest.inner_pointer,
                                        ChunkPtr(MapAt(x.d.map, x.dest.outer_pointer)))
                 IN  Bind([d    |-> memmove(x.d, x.dest.inner_pointer,
                                            x.curr.inner_pointer, space),
                           curr |-> [x.curr EXCEPT !.inner_pointer = PtrAdd(@, space)],
                           dest |-> to_next_chunk(x.d.map, x.dest)],
                          LAMBDA y :
                     Bind([d    |-> IF Stop(y.d) THEN y.d
                                    ELSE memmove(y.d, y.dest.inner_pointer,
                                                 y.curr.inner_pointer, CHUNK_SIZE - space),
                           curr |-> to_next_chunk(x.d.map, y.curr),
                           dest |-> [y.dest EXCEPT
                                        !.inner_pointer = PtrAdd(@, CHUNK_SIZE - space)]],
                          LAMBDA z : Loop(z)))
        \* the first chunk
        amount0 == CHUNK_SIZE
                   - PtrDiff(first.inner_pointer, ChunkPtr(MapAt(d.map, first.outer_pointer)))
    IN  Bind(IF first.outer_pointer # last.outer_pointer
             THEN Bind(deque_memmove_helper([d |-> d, curr |-> first, dest |-> dest],
                                            amount0),
                       LAMBDA h0 : [h0 EXCEPT !.curr = to_next_chunk(h0.d.map, h0.curr)])
             ELSE [d |-> d, curr |-> first, dest |-> dest],
             LAMBDA x0 :
        Bind(Loop(x0), LAMBDA x1 :
        \* the last chunk
        deque_memmove_helper(x1, PtrDiff(last.inner_pointer, x1.curr.inner_pointer))))

\* deque_try_move<NoThrowMove>(first, last, dest)
deque_try_move(d, first, last, dest) ==
    IF d.trivial
    THEN deque_move_with_memmove(d, first, last, dest).d
    ELSE try_move(d, first, last, dest)

------------------------------------------------------------------------------
\* The end-extension engine

\* std::copy(first, last, dest) from the old map into the new map array nm;
\* the result pointer is dest + (last - first)
\* a std::move of the chunk pointers that nulls the slots it leaves
move_to_new(d, first, last, dest) ==
    IF first > last
    THEN Fault(d, "copy with first > last")
    ELSE IF first < last /\ ~({first, last - 1} \subseteq DOMAIN d.map
                              /\ {dest, dest + (last - first) - 1} \subseteq DOMAIN d.nm)
    THEN Fault(d, "copy outside a map array")
    ELSE [d EXCEPT !.nm = [i \in DOMAIN d.nm |->
                             IF i >= dest /\ i < dest + (last - first)
                             THEN d.map[first + (i - dest)] ELSE d.nm[i]],
                   !.map = [i \in DOMAIN d.map |->
                             IF i >= first /\ i < last THEN 0 ELSE d.map[i]]]

copy_to_new(d, first, last, dest) ==
    IF first > last
    THEN Fault(d, "copy with first > last")
    ELSE IF first < last /\ ~({first, last - 1} \subseteq DOMAIN d.map
                              /\ {dest, dest + (last - first) - 1} \subseteq DOMAIN d.nm)
    THEN Fault(d, "copy outside a map array")
    ELSE [d EXCEPT !.nm = [i \in DOMAIN d.nm |->
                             IF i >= dest /\ i < dest + (last - first)
                             THEN d.map[first + (i - dest)] ELSE d.nm[i]]]

\* an allocation loop over the new map array that stops one slot early
AllocLoopNewOneShort(d, start, last) ==
    LET RECURSIVE Undo(_, _, _)
        Undo(e, q, p) ==
            IF q >= p THEN e
            ELSE Bind(deallocate(Mark(e, "allocate/freed"), e.nm[q]),
                      LAMBDA e1 : Undo(e1, q + 1, p))
        RECURSIVE Go(_, _)
        Go(e, p) ==
            IF p >= last - 1 THEN e
            ELSE Bind(NewChunk(e.heap), LAMBDA c :
                 Bind(allocate(e), LAMBDA e1 :
                    IF e1.threw THEN Undo(Mark(e1, "allocate/failed"), start, p)
                    ELSE IF Stop(e1) THEN e1
                    ELSE IF p \notin DOMAIN e1.nm
                    THEN Fault(e1, "store outside the new map array")
                    ELSE Go([e1 EXCEPT !.nm[p] = c], p + 1)))
    IN  Go(d, start)


\* while (p < last) { *p = allocate(); ++p; } on the new map array, with the
\* catch block that frees the chunks of [start, p) and rethrows
AllocLoopNew(d, start, last) ==
    LET RECURSIVE Undo(_, _, _)
        Undo(e, q, p) ==
            IF q >= p THEN e
            ELSE Bind(deallocate(Mark(e, "allocate/freed"), e.nm[q]),
                      LAMBDA e1 : Undo(e1, q + 1, p))
        RECURSIVE Go(_, _)
        Go(e, p) ==
            IF p >= last THEN e
            ELSE Bind(NewChunk(e.heap), LAMBDA c :
                 Bind(allocate(e), LAMBDA e1 :
                    IF e1.threw THEN Undo(Mark(e1, "allocate/failed"), start, p)
                    ELSE IF Stop(e1) THEN e1
                    ELSE IF p \notin DOMAIN e1.nm
                    THEN Fault(e1, "store outside the new map array")
                    ELSE Go([e1 EXCEPT !.nm[p] = c], p + 1)))
    IN  Go(d, start)

\* the tail of a reallocation that moves end_iterator's outer pointer as it
\* moves begin_iterator's, and recomputes nothing
AdoptNewMapStaleEnd(d, new_num_chunks, new_begin_outer, num_elements) ==
    [d EXCEPT !.num_chunks = new_num_chunks,
              !.begin_iterator.outer_pointer = new_begin_outer,
              !.end_iterator.outer_pointer =
                  new_begin_outer + (@ - d.begin_iterator.outer_pointer),
              !.map = d.nm,
              !.nm = <<>>,
              !.data = 3 - d.data]

\* a tail of a reallocation that puts begin_iterator one map slot later
AdoptNewMapOneLater(d, new_num_chunks, new_begin_outer, num_elements) ==
    LET bi == [d.begin_iterator EXCEPT !.outer_pointer = new_begin_outer + 1]
    IN  [d EXCEPT !.num_chunks = new_num_chunks,
                  !.begin_iterator = bi,
                  !.end_iterator = IterPlus(d.nm, bi, num_elements),
                  !.map = d.nm,
                  !.nm = <<>>,
                  !.data = 3 - d.data]


\* the tail of reallocate_end and reallocate_begin, from cleaner.release() on:
\* the new array becomes the map and the cursors are recomputed
AdoptNewMap(d, new_num_chunks, new_begin_outer, num_elements) ==
    LET bi == [d.begin_iterator EXCEPT !.outer_pointer = new_begin_outer]
    IN  [d EXCEPT !.num_chunks = new_num_chunks,
                  !.begin_iterator = bi,
                  !.end_iterator = IterPlus(d.nm, bi, num_elements),
                  !.map = d.nm,
                  !.nm = <<>>,
                  !.data = 3 - d.data]

\* ~unique_ptr of the cleaner: a new map array that was not released is freed
Cleaner(e) == IF Stop(e) THEN [e EXCEPT !.nm = <<>>] ELSE e

\* a reallocate_end whose new map array has twice active_chunks slots
reallocate_end_twice_active(d, num_new_chunks, begin_iterator_chunk, end_iterator_chunk) ==
    LET num_elements == IterDiff(d.end_iterator, d.begin_iterator)
        active_chunks == end_iterator_chunk - begin_iterator_chunk + num_new_chunks
        new_num_chunks == active_chunks * 2
        new_begin_chunk == active_chunks
        new_end_chunk == new_begin_chunk + active_chunks
        missing_start == new_begin_chunk + (d.end_chunk - begin_iterator_chunk)
        needed == new_end_chunk - missing_start
        num_free_chunks == begin_iterator_chunk - d.begin_chunk
        \* needed <= num_free_chunks
        half == TruncDiv(num_free_chunks - needed, 2)
        remain == begin_iterator_chunk - needed - half
        \* otherwise
        missing_start2 == missing_start + (begin_iterator_chunk - d.begin_chunk)
    IN  Then(allocate_map(Mark(d, "reallocate_end"), new_num_chunks), LAMBDA a0 :
        Bind(Cleaner(
            Then(copy_to_new([a0 EXCEPT !.nm = [i \in (-1)..new_num_chunks |-> 0]],
                             begin_iterator_chunk, d.end_chunk, new_begin_chunk),
                 LAMBDA a2 :
            IF needed <= num_free_chunks
            THEN Then(copy_to_new(a2, remain, begin_iterator_chunk, missing_start),
                      LAMBDA b1 :
                 Then(copy_to_new([b1 EXCEPT !.end_chunk = missing_start
                                                + (begin_iterator_chunk - remain)],
                                  d.begin_chunk, remain,
                                  new_begin_chunk - (remain - d.begin_chunk)),
                      LAMBDA b3 :
                 [b3 EXCEPT !.begin_chunk = new_begin_chunk - (remain - d.begin_chunk)]))
            ELSE Then(copy_to_new(a2, d.begin_chunk, begin_iterator_chunk, missing_start),
                      LAMBDA c1 :
                 Then(AllocLoopNew(Mark(c1, "reallocate_end/allocate"),
                                   missing_start2, new_end_chunk),
                      LAMBDA c2 :
                 [c2 EXCEPT !.begin_chunk = new_begin_chunk,
                            !.end_chunk = new_end_chunk])))),
            LAMBDA e :
        IF Stop(e) THEN e
        ELSE AdoptNewMap(e, new_num_chunks, new_begin_chunk, num_elements)))

\* reallocate_end(num_new_chunks, begin_iterator_chunk, end_iterator_chunk)
reallocate_end(d, num_new_chunks, begin_iterator_chunk, end_iterator_chunk) ==
    LET num_elements == IterDiff(d.end_iterator, d.begin_iterator)
        active_chunks == end_iterator_chunk - begin_iterator_chunk + num_new_chunks
        new_num_chunks == active_chunks * 3
        new_begin_chunk == active_chunks
        new_end_chunk == new_begin_chunk + active_chunks
        missing_start == new_begin_chunk + (d.end_chunk - begin_iterator_chunk)
        needed == new_end_chunk - missing_start
        num_free_chunks == begin_iterator_chunk - d.begin_chunk
        \* needed <= num_free_chunks
        half == TruncDiv(num_free_chunks - needed, 2)
        remain == begin_iterator_chunk - needed - half
        \* otherwise
        missing_start2 == missing_start + (begin_iterator_chunk - d.begin_chunk)
    IN  Then(allocate_map(Mark(d, "reallocate_end"), new_num_chunks), LAMBDA a0 :
        Bind(Cleaner(
            Then(copy_to_new([a0 EXCEPT !.nm = [i \in (-1)..new_num_chunks |-> 0]],
                             begin_iterator_chunk, d.end_chunk, new_begin_chunk),
                 LAMBDA a2 :
            IF needed <= num_free_chunks
            THEN Then(copy_to_new(a2, remain, begin_iterator_chunk, missing_start),
                      LAMBDA b1 :
                 Then(copy_to_new([b1 EXCEPT !.end_chunk = missing_start
                                                + (begin_iterator_chunk - remain)],
                                  d.begin_chunk, remain,
                                  new_begin_chunk - (remain - d.begin_chunk)),
                      LAMBDA b3 :
                 [b3 EXCEPT !.begin_chunk = new_begin_chunk - (remain - d.begin_chunk)]))
            ELSE Then(copy_to_new(a2, d.begin_chunk, begin_iterator_chunk, missing_start),
                      LAMBDA c1 :
                 Then(AllocLoopNew(Mark(c1, "reallocate_end/allocate"),
                                   missing_start2, new_end_chunk),
                      LAMBDA c2 :
                 [c2 EXCEPT !.begin_chunk = new_begin_chunk,
                            !.end_chunk = new_end_chunk])))),
            LAMBDA e :
        IF Stop(e) THEN e
        ELSE AdoptNewMap(e, new_num_chunks, new_begin_chunk, num_elements)))

\* center that donates the whole difference, not half of it
center_unhalved(d, left, right) ==
    LET donation == right - left
    IN  IF donation >= 0
        THEN Then(swap_ranges([d EXCEPT !.begin_chunk = @ - donation],
                              d.end_chunk - donation, d.end_chunk,
                              d.begin_chunk - donation),
                  LAMBDA r2 : [r2 EXCEPT !.end_chunk = @ - donation])
        ELSE Then(swap_ranges(d, d.begin_chunk, d.begin_chunk - donation, d.end_chunk),
                  LAMBDA l1 : [l1 EXCEPT !.end_chunk = @ - donation,
                                         !.begin_chunk = @ - donation])

center(d, left, right) ==
    LET donation == TruncDiv(right - left, 2)
    IN  IF donation >= 0
        THEN \* too many on the right
             Then(swap_ranges([d EXCEPT !.begin_chunk = @ - donation],
                              d.end_chunk - donation, d.end_chunk,
                              d.begin_chunk - donation),
                  LAMBDA r2 : [r2 EXCEPT !.end_chunk = @ - donation])
        ELSE \* too many on the left
             Then(swap_ranges(d, d.begin_chunk, d.begin_chunk - donation, d.end_chunk),
                  LAMBDA l1 : [l1 EXCEPT !.end_chunk = @ - donation,
                                         !.begin_chunk = @ - donation])

\* while (end_chunk < new_end_chunk) { *end_chunk = allocate(); ++end_chunk; }
AllocLoopEnd(d, new_end_chunk) ==
    LET RECURSIVE Go(_)
        Go(e) ==
            IF e.end_chunk >= new_end_chunk THEN e
            ELSE Bind(NewChunk(e.heap), LAMBDA c :
                 Bind(allocate(e), LAMBDA e0 :
                 IF e0.threw THEN Mark(e0, "allocate/failed")
                 ELSE
                 Then(e0, LAMBDA e1 :
                 Then(MapStore(e1, e1.end_chunk, c), LAMBDA e2 :
                 Go([e2 EXCEPT !.end_chunk = @ + 1])))))
    IN  Go(d)

rearrange_end(d, num_new_chunks, begin_iterator_chunk, end_iterator_chunk) ==
    LET num_elements == IterDiff(d.end_iterator, d.begin_iterator)
        active_chunks == end_iterator_chunk - begin_iterator_chunk + num_new_chunks
        new_begin_chunk == (d.num_chunks - active_chunks) \div 2
        new_end_iterator_chunk == new_begin_chunk + (end_iterator_chunk - begin_iterator_chunk)
        \* begin_chunk > new_begin_chunk
        overlap == d.begin_chunk <= new_end_iterator_chunk
        fill_pos == IF overlap THEN begin_iterator_chunk
                    ELSE new_end_iterator_chunk + (begin_iterator_chunk - d.begin_chunk)
        src_begin == end_iterator_chunk
                     - (IF overlap THEN new_end_iterator_chunk - d.begin_chunk ELSE 0)
        new_end_chunk == new_begin_chunk + active_chunks
        balanced == fill_pos + (d.end_chunk - src_begin) <= new_end_chunk + 1
        \* the centering at the end
        Centre(e) == center(Mark(e, "rearrange_end/center"),
                            new_begin_chunk - e.begin_chunk,
                            e.end_chunk - new_end_iterator_chunk - num_new_chunks)
    IN  Then(swap_ranges(Mark(d, "rearrange_end"), begin_iterator_chunk,
                         end_iterator_chunk, new_begin_chunk),
             LAMBDA a1 :
        Bind([a1.begin_iterator EXCEPT !.outer_pointer = new_begin_chunk], LAMBDA bi :
        Bind([a1 EXCEPT !.begin_iterator = bi,
                        !.end_iterator = IterPlus(a1.map, bi, num_elements)],
             LAMBDA a2 :
        IF d.begin_chunk > new_begin_chunk
        THEN Then(IF overlap THEN a2
                  ELSE swap_ranges(a2, d.begin_chunk, begin_iterator_chunk,
                                   new_end_iterator_chunk),
                  LAMBDA b1 :
             Then(swap_ranges(b1, src_begin, d.end_chunk, fill_pos), LAMBDA b2 :
             Then(AllocLoopEnd(Mark([b2 EXCEPT
                                       !.end_chunk = fill_pos + (d.end_chunk - src_begin),
                                       !.begin_chunk = new_begin_chunk],
                                    "rearrange_end/coalesce"), new_end_chunk),
                  LAMBDA b4 :
             IF balanced THEN b4 ELSE Centre(b4))))
        ELSE Centre(a2))))

\* what a call left as it was: for each part of the state of d0, whether d
\* holds it unchanged
Same(d0, d) ==
    [data |-> d.data = d0.data,
     num_chunks |-> d.num_chunks = d0.num_chunks,
     begin_chunk |-> d.begin_chunk = d0.begin_chunk,
     end_chunk |-> d.end_chunk = d0.end_chunk,
     map |-> d.map = d0.map,
     begin_iterator |-> d.begin_iterator = d0.begin_iterator,
     end_iterator |-> d.end_iterator = d0.end_iterator,
     heap |-> d.heap = d0.heap,
     elements |-> Elements(d) = Elements(d0)]

\* what a make_room_end or make_room_begin that was entered with d0 and
\* returned with r did: its arguments, the numbers it computed on entry, where
\* it left the live chunks, whether the k map slots next to them (after them
\* for make_room_end, before them for make_room_begin) are slots of the map
\* array that hold allocated chunks, whether the live chunks are the same
\* chunks in the same order, whether the cursors designate the slots they
\* designated, and whether every element slot holds what it held
MadeRoom(d0, r, k, side, bic, eic) ==
    LET first == r.begin_iterator.outer_pointer
        next  == IF side = "end" THEN first + (eic - bic) ELSE first - k
    IN  [side |-> side,
         k |-> k,
         begin_outer |-> d0.begin_iterator.outer_pointer,
         end_outer |-> d0.end_iterator.outer_pointer,
         end_null |-> d0.end_iterator.inner_pointer = NULL,
         num_chunks |-> d0.num_chunks,
         new_num_chunks |-> r.num_chunks,
         new_begin_outer |-> first,
         same_array |-> r.data = d0.data,
         reserved |-> \A i \in next..(next + k - 1) :
                         /\ i \in 0..(r.num_chunks - 1)
                         /\ MapAt(r.map, i) \in Allocated(r.heap),
         live |-> \A i \in 0..(eic - bic - 1) :
                     MapAt(r.map, first + i) = MapAt(d0.map, bic + i),
         begin_slot |-> r.begin_iterator.inner_pointer = d0.begin_iterator.inner_pointer,
         end_slot |-> \/ r.end_iterator.inner_pointer = d0.end_iterator.inner_pointer
                      \/ /\ d0.end_iterator.inner_pointer = NULL
                         /\ r.end_iterator.outer_pointer - first
                                = d0.end_iterator.outer_pointer - bic
                         /\ r.end_iterator.inner_pointer
                                = ChunkPtr(MapAt(r.map, r.end_iterator.outer_pointer)),
         elements |-> \A c \in Allocated(d0.heap) : r.heap[c] = d0.heap[c]]

\* mr records what an exception that leaves make_room_end or make_room_begin
\* left unchanged since the entry to it, room what a call that returned did
LeaveMakeRoom(d0, r, k, side, bic, eic) ==
    IF r.threw THEN [r EXCEPT !.mr = Same(d0, r)]
    ELSE IF Stop(r) THEN r
    ELSE [r EXCEPT !.room = MadeRoom(d0, r, k, side, bic, eic)]

\* a make_room_end that rearranges in place up to half of num_chunks
make_room_end_by_half(d0, num_new_chunks) ==
    Bind(Mark(d0, "make_room_end"), LAMBDA d :
    LET begin_iterator_chunk == d.begin_iterator.outer_pointer
        end_iterator_chunk ==
            IF d.end_iterator.inner_pointer # NULL
            THEN d.end_iterator.outer_pointer + 1
            ELSE d.end_iterator.outer_pointer
        active_chunks == end_iterator_chunk - begin_iterator_chunk + num_new_chunks
    IN  Bind(IF active_chunks <= d.num_chunks \div 2
             THEN rearrange_end(d, num_new_chunks, begin_iterator_chunk,
                                end_iterator_chunk)
             ELSE reallocate_end(d, num_new_chunks, begin_iterator_chunk,
                                 end_iterator_chunk),
             LAMBDA r : LeaveMakeRoom(d0, r, num_new_chunks, "end",
                                      begin_iterator_chunk, end_iterator_chunk)))


\* make_room_end(num_new_chunks)
make_room_end(d0, num_new_chunks) ==
    Bind(Mark(d0, "make_room_end"), LAMBDA d :
    LET begin_iterator_chunk == d.begin_iterator.outer_pointer
        end_iterator_chunk ==
            IF d.end_iterator.inner_pointer # NULL
            THEN d.end_iterator.outer_pointer + 1
            ELSE d.end_iterator.outer_pointer
        active_chunks == end_iterator_chunk - begin_iterator_chunk + num_new_chunks
    IN  Bind(IF active_chunks <= d.num_chunks \div 3
             THEN rearrange_end(d, num_new_chunks, begin_iterator_chunk,
                                end_iterator_chunk)
             ELSE reallocate_end(d, num_new_chunks, begin_iterator_chunk,
                                 end_iterator_chunk),
             LAMBDA r : LeaveMakeRoom(d0, r, num_new_chunks, "end",
                                      begin_iterator_chunk, end_iterator_chunk)))

\* a catch block that only rethrows
CatchChunkEndRethrows(t) == t

\* the catch block of handle_chunk_end
CatchChunkEnd(t) ==
    Bind(to_prev_chunk(t.map, t.end_iterator), LAMBDA ei :
    Bind([ei EXCEPT !.inner_pointer = PtrAdd(@, -1)], LAMBDA ej :
    destroy_at([t EXCEPT !.end_iterator = ej], ej.inner_pointer)))

\* a handle_chunk_end that makes room whenever the next map slot holds no chunk
handle_chunk_end_eager(d0) ==
    Bind([Mark(d0, "handle_chunk_end") EXCEPT
             !.end_iterator = to_next_chunk(d0.map, d0.end_iterator)],
         LAMBDA d1 :
    Bind(IF d1.end_iterator.inner_pointer = NULL
         THEN make_room_end(d1, 1)
         ELSE d1,
         LAMBDA t :
    IF t.threw /\ t.fault = "" /\ ~t.oob
    THEN CatchChunkEnd(t)
    ELSE t))

\* handle_chunk_end()
handle_chunk_end(d0) ==
    Bind([Mark(d0, "handle_chunk_end") EXCEPT
             !.end_iterator = to_next_chunk(d0.map, d0.end_iterator)],
         LAMBDA d1 :
    Bind(IF d1.end_iterator.outer_pointer = d1.num_chunks
         THEN make_room_end(d1, 1)
         ELSE IF d1.end_iterator.inner_pointer = NULL
         THEN Bind(NewChunk(d1.heap), LAMBDA memory :
              Then(allocate(Mark(d1, "handle_chunk_end/allocate")), LAMBDA m1 :
              Then(MapStore([m1 EXCEPT !.end_chunk = @ + 1],
                            m1.end_iterator.outer_pointer, memory),
                   LAMBDA m2 :
              [m2 EXCEPT !.end_iterator =
                   [outer_pointer |-> m1.end_iterator.outer_pointer,
                    inner_pointer |-> ChunkPtr(memory),
                    chunk_begin |-> ChunkPtr(memory),
                    chunk_end |-> PtrAdd(ChunkPtr(memory), CHUNK_SIZE)]])))
         ELSE d1,
         LAMBDA t :
    IF t.threw /\ t.fault = "" /\ ~t.oob
    THEN CatchChunkEnd(t)
    ELSE t))

\* push_back without the step to the next chunk
push_back_in_chunk(d, value) ==
    Then(construct(d, d.end_iterator.inner_pointer, value), LAMBDA d1 :
    [d1 EXCEPT !.end_iterator.inner_pointer = PtrAdd(@, 1)])

push_back(d, value) ==
    Then(construct(d, d.end_iterator.inner_pointer, value), LAMBDA d1 :
    Bind([d1 EXCEPT !.end_iterator.inner_pointer = PtrAdd(@, 1)], LAMBDA d2 :
    IF d2.end_iterator.inner_pointer = d2.end_iterator.chunk_end
    THEN handle_chunk_end(d2)
    ELSE d2))

pop_back(d) ==
    Bind(IterPrev(d.map, d.end_iterator), LAMBDA ei :
    destroy_at([d EXCEPT !.end_iterator = ei], ei.inner_pointer))

\* a pop_front that releases the chunk its cursor leaves
pop_front_releasing(d) ==
    Then(destroy_at(d, d.begin_iterator.inner_pointer), LAMBDA d1 :
    Bind(IterNext(d1.map, d1.begin_iterator), LAMBDA bi :
    IF bi.outer_pointer = d1.begin_iterator.outer_pointer
    THEN [d1 EXCEPT !.begin_iterator = bi]
    ELSE Then(deallocate(d1, d1.begin_iterator.inner_pointer.c), LAMBDA d2 :
         [d2 EXCEPT !.begin_iterator = bi,
                    !.map[d1.begin_iterator.outer_pointer] = 0,
                    !.begin_chunk = bi.outer_pointer])))

pop_front(d) ==
    Then(destroy_at(d, d.begin_iterator.inner_pointer), LAMBDA d1 :
    [d1 EXCEPT !.begin_iterator = IterNext(d1.map, d1.begin_iterator)])

------------------------------------------------------------------------------
\* The begin-extension engine

\* std::copy_backward(first, last, d_last) from the old map into the new map
\* array; the result pointer is d_last - (last - first)
\* std::copy_backward that ends one slot early
copy_backward_to_new_early(d, first, last, d_last) ==
    copy_to_new(d, first, last, d_last - (last - first) - 1)

copy_backward_to_new(d, first, last, d_last) ==
    copy_to_new(d, first, last, d_last - (last - first))

reallocate_begin(d, num_new_chunks, begin_iterator_chunk, end_iterator_chunk) ==
    LET num_elements == IterDiff(d.end_iterator, d.begin_iterator)
        active_chunks == end_iterator_chunk - begin_iterator_chunk + num_new_chunks
        new_num_chunks == active_chunks * 3
        new_begin_chunk == active_chunks
        new_end_chunk == new_begin_chunk + active_chunks
        missing_end == new_end_chunk - (end_iterator_chunk - d.begin_chunk)
        needed == missing_end - new_begin_chunk
        num_free_chunks == d.end_chunk - end_iterator_chunk
        \* needed <= num_free_chunks
        half == TruncDiv(num_free_chunks - needed, 2)
        remain == end_iterator_chunk + needed + half
        \* otherwise
        fill_end == missing_end - (d.end_chunk - end_iterator_chunk)
    IN  Then(allocate_map(Mark(d, "reallocate_begin"), new_num_chunks), LAMBDA a0 :
        Bind(Cleaner(
            Then(copy_backward_to_new([a0 EXCEPT !.nm = [i \in (-1)..new_num_chunks |-> 0]],
                                      d.begin_chunk, end_iterator_chunk, new_end_chunk),
                 LAMBDA a2 :
            IF needed <= num_free_chunks
            THEN Then(copy_backward_to_new(a2, end_iterator_chunk, remain, missing_end),
                      LAMBDA b1 :
                 Then(copy_to_new([b1 EXCEPT !.begin_chunk = missing_end
                                                  - (remain - end_iterator_chunk)],
                                  remain, d.end_chunk, new_end_chunk),
                      LAMBDA b3 :
                 [b3 EXCEPT !.end_chunk = new_end_chunk + (d.end_chunk - remain)]))
            ELSE Then(copy_backward_to_new(a2, end_iterator_chunk, d.end_chunk, missing_end),
                      LAMBDA c1 :
                 Then(AllocLoopNew(Mark(c1, "reallocate_begin/allocate"),
                                   new_begin_chunk, fill_end),
                      LAMBDA c2 :
                 [c2 EXCEPT !.begin_chunk = new_begin_chunk,
                            !.end_chunk = new_end_chunk])))),
            LAMBDA e :
        IF Stop(e) THEN e
        ELSE AdoptNewMap(e, new_num_chunks, new_begin_chunk + num_new_chunks,
                         num_elements)))

RevSwapLoop(m, a, b, c) ==
    LET RECURSIVE Go(_, _)
        Go(mm, i) ==
            IF a - i <= b THEN mm
            ELSE Bind([mm EXCEPT ![a - 1 - i] = mm[c - 1 - i],
                                 ![c - 1 - i] = mm[a - 1 - i]],
                      LAMBDA m2 : Go(m2, i + 1))
    IN  Go(m, 0)

\* std::swap_ranges(std::reverse_iterator<T**>(a), std::reverse_iterator<T**>(b),
\*                  std::reverse_iterator<T**>(c)): a std::reverse_iterator built
\* from x designates the slot x - 1, so the slots a-1, a-2, ..., b are swapped
\* with c-1, c-2, ...; the result's base() is c - (a - b)
rev_swap_ranges(d, a, b, c) ==
    IF a < b
    THEN Fault(d, "swap_ranges with first > last")
    ELSE IF a > b /\ ~({a - 1, b, c - 1, c - (a - b)} \subseteq DOMAIN d.map)
    THEN Fault(d, "swap_ranges outside the map array")
    ELSE [d EXCEPT !.map = RevSwapLoop(d.map, a, b, c)]

\* T** p = begin_chunk - 1;
\* while (p >= new_begin_chunk) { *p = allocate(); begin_chunk--; p--; }
AllocLoopBegin(d, new_begin_chunk) ==
    LET RECURSIVE Go(_, _)
        Go(e, p) ==
            IF p < new_begin_chunk THEN e
            ELSE Bind(NewChunk(e.heap), LAMBDA c :
                 Bind(allocate(e), LAMBDA e0 :
                 IF e0.threw THEN Mark(e0, "allocate/failed")
                 ELSE
                 Then(e0, LAMBDA e1 :
                 Then(MapStore(e1, p, c), LAMBDA e2 :
                 Go([e2 EXCEPT !.begin_chunk = @ - 1], p - 1)))))
    IN  Go(d, d.begin_chunk - 1)

rearrange_begin(d, num_new_chunks, begin_iterator_chunk, end_iterator_chunk) ==
    LET num_elements == IterDiff(d.end_iterator, d.begin_iterator)
        active_chunks == end_iterator_chunk - begin_iterator_chunk + num_new_chunks
        new_begin_chunk == (d.num_chunks - active_chunks) \div 2
        new_begin_iterator_chunk == new_begin_chunk + num_new_chunks
        new_end_iterator_chunk ==
            new_begin_iterator_chunk + (end_iterator_chunk - begin_iterator_chunk)
        \* end_chunk < new_end_iterator_chunk
        overlap == d.end_chunk >= new_begin_iterator_chunk
        fill_pos == IF overlap THEN end_iterator_chunk
                    ELSE (new_begin_iterator_chunk - 1
                          - ((d.end_chunk - 1) - (end_iterator_chunk - 1))) + 1
        src_end == begin_iterator_chunk
                   + (IF overlap THEN d.end_chunk - new_begin_iterator_chunk ELSE 0)
        moved_begin_chunk == (fill_pos - ((src_end - 1) - (d.begin_chunk - 1))) + 1
        balanced == moved_begin_chunk >= new_begin_chunk - 1
        \* the centering at the end
        Centre(e) == center(Mark(e, "rearrange_begin/center"),
                            new_begin_iterator_chunk - e.begin_chunk - num_new_chunks,
                            e.end_chunk - new_end_iterator_chunk)
    IN  Then(swap_ranges(Mark(d, "rearrange_begin"), begin_iterator_chunk,
                         end_iterator_chunk, new_begin_iterator_chunk),
             LAMBDA a1 :
        Bind([a1.begin_iterator EXCEPT !.outer_pointer = new_begin_iterator_chunk],
             LAMBDA bi :
        Bind([a1 EXCEPT !.begin_iterator = bi,
                        !.end_iterator = IterPlus(a1.map, bi, num_elements)],
             LAMBDA a2 :
        IF d.end_chunk < new_end_iterator_chunk
        THEN Then(IF overlap THEN a2
                  ELSE rev_swap_ranges(a2, d.end_chunk - 1, end_iterator_chunk - 1,
                                       new_begin_iterator_chunk - 1),
                  LAMBDA b1 :
             Then(rev_swap_ranges(b1, src_end - 1, d.begin_chunk - 1, fill_pos),
                  LAMBDA b2 :
             Then(AllocLoopBegin(Mark([b2 EXCEPT !.begin_chunk = moved_begin_chunk,
                                                 !.end_chunk = new_end_iterator_chunk],
                                      "rearrange_begin/coalesce"), new_begin_chunk),
                  LAMBDA b4 :
             IF balanced THEN b4 ELSE Centre(b4))))
        ELSE Centre(a2))))

\* a make_room_begin that makes room for one chunk less than it is asked for
make_room_begin_one_short(d0, num_new_chunks) ==
    Bind(Mark(d0, "make_room_begin"), LAMBDA d :
    LET begin_iterator_chunk == d.begin_iterator.outer_pointer
        end_iterator_chunk == d.end_iterator.outer_pointer + 1
        active_chunks == end_iterator_chunk - begin_iterator_chunk + (num_new_chunks - 1)
    IN  Bind(IF active_chunks <= d.num_chunks \div 3
             THEN rearrange_begin(d, num_new_chunks - 1, begin_iterator_chunk,
                                  end_iterator_chunk)
             ELSE reallocate_begin(d, num_new_chunks - 1, begin_iterator_chunk,
                                   end_iterator_chunk),
             LAMBDA r : LeaveMakeRoom(d0, r, num_new_chunks, "begin",
                                      begin_iterator_chunk, end_iterator_chunk)))


\* make_room_begin(num_new_chunks)
make_room_begin(d0, num_new_chunks) ==
    Bind(Mark(d0, "make_room_begin"), LAMBDA d :
    LET begin_iterator_chunk == d.begin_iterator.outer_pointer
        end_iterator_chunk == d.end_iterator.outer_pointer + 1
        active_chunks == end_iterator_chunk - begin_iterator_chunk + num_new_chunks
    IN  Bind(IF active_chunks <= d.num_chunks \div 3
             THEN rearrange_begin(d, num_new_chunks, begin_iterator_chunk,
                                  end_iterator_chunk)
             ELSE reallocate_begin(d, num_new_chunks, begin_iterator_chunk,
                                   end_iterator_chunk),
             LAMBDA r : LeaveMakeRoom(d0, r, num_new_chunks, "begin",
                                      begin_iterator_chunk, end_iterator_chunk)))

\* a catch block that only rethrows
CatchChunkBeginRethrows(t) == t

\* the catch block of handle_chunk_begin
CatchChunkBegin(t) ==
    [t EXCEPT !.begin_iterator = to_next_chunk(t.map, t.begin_iterator)]

handle_chunk_begin(d0, value) ==
    Bind(Mark(d0, "handle_chunk_begin"), LAMBDA d :
    Then(IF d.begin_iterator.inner_pointer = ChunkPtr(MapAt(d.map, 0))
         THEN Then(make_room_begin(d, 1), LAMBDA r1 :
              [r1 EXCEPT !.begin_iterator.outer_pointer = @ - 1])
         ELSE IF d.begin_iterator.outer_pointer = d.begin_chunk
         THEN Bind(NewChunk(d.heap), LAMBDA memory :
              Then(allocate(Mark(d, "handle_chunk_begin/allocate")), LAMBDA m1 :
              Then(MapStore(m1, m1.begin_iterator.outer_pointer - 1, memory),
                   LAMBDA m2 :
              [m2 EXCEPT !.begin_iterator.outer_pointer = @ - 1,
                         !.begin_chunk = @ - 1])))
         ELSE [Mark(d, "handle_chunk_begin/reuse")
                  EXCEPT !.begin_iterator.outer_pointer = @ - 1],
         LAMBDA t :
    Bind(ChunkPtr(MapAt(t.map, t.begin_iterator.outer_pointer)), LAMBDA cb :
    Bind([Mark(t, "handle_chunk_begin/construct") EXCEPT !.begin_iterator =
              [outer_pointer |-> t.begin_iterator.outer_pointer,
               chunk_begin |-> cb,
               inner_pointer |-> PtrAdd(cb, CHUNK_SIZE - 1),
               chunk_end |-> PtrAdd(PtrAdd(cb, CHUNK_SIZE - 1), 1)]],
         LAMBDA t1 :
    Bind(construct(t1, t1.begin_iterator.inner_pointer, value), LAMBDA t2 :
    IF t2.threw /\ t2.fault = "" /\ ~t2.oob
    THEN CatchChunkBegin(t2)
    ELSE t2)))))

push_front(d, value) ==
    IF d.begin_iterator.chunk_begin # d.begin_iterator.inner_pointer
    THEN Then(construct(d, PtrAdd(d.begin_iterator.inner_pointer, -1), value),
              LAMBDA d1 :
         [d1 EXCEPT !.begin_iterator.inner_pointer = PtrAdd(@, -1)])
    ELSE handle_chunk_begin(d, value)

------------------------------------------------------------------------------
\* shrink_to_fit and clear

\* for (; begin_chunk != stop; ++begin_chunk) deallocate(*begin_chunk);
FreeFront(d, stop) ==
    LET RECURSIVE Go(_)
        Go(e) ==
            IF e.begin_chunk = stop THEN e
            ELSE Then(deallocate(e, MapAt(e.map, e.begin_chunk)), LAMBDA e1 :
                 Go([e1 EXCEPT !.begin_chunk = @ + 1]))
    IN  IF d.begin_chunk > stop
        THEN Fault(d, "chunk walk past the last chunk")
        ELSE Go(d)

\* a loop that lowers end_chunk to stop and deallocates nothing
FreeBackForgetting(d, stop) ==
    IF d.end_chunk < stop
    THEN Fault(d, "chunk walk past the first chunk")
    ELSE [d EXCEPT !.end_chunk = stop]

\* for (; end_chunk != stop; --end_chunk) deallocate(*(end_chunk - 1));
FreeBack(d, stop) ==
    LET RECURSIVE Go(_)
        Go(e) ==
            IF e.end_chunk = stop THEN e
            ELSE Then(deallocate(e, MapAt(e.map, e.end_chunk - 1)), LAMBDA e1 :
                 Go([e1 EXCEPT !.end_chunk = @ - 1]))
    IN  IF d.end_chunk < stop
        THEN Fault(d, "chunk walk past the first chunk")
        ELSE Go(d)

\* a shrink_to_fit without the early return, which frees the spare chunks on
\* both sides of the occupied ones
shrink_to_fit_freeing_spare(d0) ==
    Bind(Mark(d0, "shrink_to_fit"), LAMBDA d :
    Then(FreeFront(d, d.begin_iterator.outer_pointer), LAMBDA s1 :
    FreeBack(s1, d.end_iterator.outer_pointer + 1)))

shrink_to_fit(d0) ==
    Bind(Mark(d0, "shrink_to_fit"), LAMBDA d :
    LET begin_iterator_chunk == d.begin_iterator.outer_pointer
        end_iterator_chunk0 == d.end_iterator.outer_pointer + 1
        ghost_capacity == d.num_chunks * CHUNK_SIZE
        minimum_capacity == CHUNK_PADDING * CHUNK_SIZE
        num_elements == size(d)
        needed_capacity == num_elements + 1
        occupied_capacity == (end_iterator_chunk0 - begin_iterator_chunk) * CHUNK_SIZE
        \* move the elements to the beginning of begin_iterator's chunk
        compact == needed_capacity + CHUNK_SIZE <= occupied_capacity
        new_begin_iterator ==
            iterator(d.map, begin_iterator_chunk, ChunkPtr(MapAt(d.map, begin_iterator_chunk)))
        uninitialized_move_amount ==
            Min(IterDiff(d.begin_iterator, new_begin_iterator), num_elements)
        initialized_src_begin ==
            IterPlus(d.map, d.begin_iterator, uninitialized_move_amount)
        end_iterator_chunk == IF compact THEN end_iterator_chunk0 - 1 ELSE end_iterator_chunk0
        new_num_chunks == (needed_capacity + CHUNK_SIZE - 1) \div CHUNK_SIZE
    IN  IF needed_capacity + CHUNK_SIZE > occupied_capacity
           /\ (occupied_capacity = ghost_capacity \/ occupied_capacity <= minimum_capacity)
        THEN Mark(d, "shrink_to_fit/tight")
        ELSE
        Then(IF compact
             THEN Then(try_uninitialized_move(Mark(d, "shrink_to_fit/compact"),
                                              d.begin_iterator, initialized_src_begin,
                                              new_begin_iterator),
                       LAMBDA m1 :
                  Then(deque_try_move(m1, initialized_src_begin, d.end_iterator,
                                      IterPlus(d.map, new_begin_iterator,
                                               uninitialized_move_amount)),
                       LAMBDA m2 :
                  Then(destroy(m2, IterPlus(d.map, d.end_iterator,
                                            -uninitialized_move_amount),
                               d.end_iterator),
                       LAMBDA m3 :
                  [m3 EXCEPT !.begin_iterator = new_begin_iterator,
                             !.end_iterator = IterPlus(d.map, new_begin_iterator,
                                                       num_elements)])))
             ELSE d,
             LAMBDA s0 :
        \* free the chunks on both sides
        Then(FreeFront(s0, begin_iterator_chunk), LAMBDA s1 :
        Then(FreeBack(s1, end_iterator_chunk), LAMBDA s2 :
        Then(allocate_map(Mark(s2, "shrink_to_fit/allocate"), new_num_chunks),
             LAMBDA s3 :
        Bind(Cleaner(copy_to_new([s3 EXCEPT !.nm = [i \in (-1)..new_num_chunks |-> 0]],
                                 begin_iterator_chunk, end_iterator_chunk, 0)),
             LAMBDA s4 :
        IF Stop(s4) THEN s4
        ELSE Bind([s4.begin_iterator EXCEPT !.outer_pointer = 0], LAMBDA bi :
             [s4 EXCEPT !.num_chunks = new_num_chunks,
                        !.begin_iterator = bi,
                        !.end_iterator = IterPlus(s4.nm, bi, num_elements),
                        !.begin_chunk = 0,
                        !.end_chunk = end_iterator_chunk - begin_iterator_chunk,
                        !.map = s4.nm,
                        !.nm = <<>>,
                        !.data = 3 - d.data])))))))

\* a clear that leaves both cursors at the start of the first allocated chunk
clear_to_range_start(d0) ==
    Then(destroy(d0, d0.begin_iterator, d0.end_iterator), LAMBDA d :
    Bind(iterator(d.map, d.begin_chunk, ChunkPtr(MapAt(d.map, d.begin_chunk))),
         LAMBDA bi :
    [d EXCEPT !.begin_iterator = bi, !.end_iterator = bi]))

\* clear()
clear(d0) ==
    Then(destroy(d0, d0.begin_iterator, d0.end_iterator), LAMBDA d :
    Bind(IF d.begin_chunk # d.end_chunk
         THEN IterPlus(d.map,
                       iterator(d.map, d.begin_chunk, ChunkPtr(MapAt(d.map, d.begin_chunk))),
                       ((d.end_chunk - d.begin_chunk) * CHUNK_SIZE) \div 2)
         ELSE d.begin_iterator,
         LAMBDA bi :
    [d EXCEPT !.begin_iterator = bi, !.end_iterator = bi]))

------------------------------------------------------------------------------
\* Moves toward the back

\* it1 == it2
IterEq(a, b) == a.inner_pointer = b.inner_pointer

\* try_move_backwards<NoThrowMove>(first, last, d_last): std::move_backward,
\* back to front
try_move_backwards(d, first, last, d_last) ==
    LET n == IterDiff(last, first)
        RECURSIVE Go(_, _)
        Go(e, i) ==
            IF i > n THEN e
            ELSE Then(move_assign(e, IterPlus(e.map, d_last, 0 - i).inner_pointer,
                                  IterPlus(e.map, last, 0 - i).inner_pointer),
                      LAMBDA e1 : Go(e1, i + 1))
    IN  IF n < 0 THEN Fault(d, "move of a range with first > last") ELSE Go(d, 1)

\* a backward helper that copies as the forward helper does, to the slots
\* from dest on
deque_memmove_backward_helper_ascending(x, amount) ==
    deque_memmove_helper(x, amount)

\* deque_memmove_backward_helper(curr, d_last, amount); x is [d, curr, dest],
\* the deque and the two iterators passed by reference, dest being d_last
deque_memmove_backward_helper(x, amount) ==
    LET space == PtrDiff(x.dest.inner_pointer,
                         ChunkPtr(MapAt(x.d.map, x.dest.outer_pointer)))
    IN  IF Stop(x.d) THEN x
        ELSE IF amount >= space
        THEN Bind([x.curr EXCEPT !.inner_pointer = PtrAdd(@, 0 - space)], LAMBDA c1 :
             Bind(memmove(x.d, ChunkPtr(MapAt(x.d.map, x.dest.outer_pointer)),
                          c1.inner_pointer, space),
                  LAMBDA d1 :
             Bind([to_prev_chunk(x.d.map, x.dest) EXCEPT
                      !.inner_pointer = PtrAdd(@, 0 - (amount - space))],
                  LAMBDA dl :
             Bind([c1 EXCEPT !.inner_pointer = PtrAdd(@, 0 - (amount - space))],
                  LAMBDA c2 :
             [d    |-> IF Stop(d1) THEN d1
                       ELSE memmove(d1, dl.inner_pointer, c2.inner_pointer, amount - space),
              curr |-> c2,
              dest |-> dl]))))
        ELSE Bind([x.dest EXCEPT !.inner_pointer = PtrAdd(@, 0 - amount)], LAMBDA dl :
             Bind([x.curr EXCEPT !.inner_pointer = PtrAdd(@, 0 - amount)], LAMBDA c1 :
             [d    |-> memmove(x.d, dl.inner_pointer, c1.inner_pointer, amount),
              curr |-> c1,
              dest |-> dl]))

\* deque_move_backwards_with_memmove(first, last, d_last); the result is
\* [d, curr, dest] with dest the iterator returned
deque_move_backwards_with_memmove(d, first, last0, d_last0) ==
    LET \* the whole chunks in between
        RECURSIVE Loop(_)
        Loop(x) ==
            IF x.curr.outer_pointer = first.outer_pointer \/ Stop(x.d) THEN x
            ELSE IF x.curr.outer_pointer < first.outer_pointer
            THEN [x EXCEPT !.d = Fault(@, "chunk walk past the first chunk")]
            ELSE LET space == PtrDiff(x.dest.inner_pointer,
                                      ChunkPtr(MapAt(x.d.map, x.dest.outer_pointer)))
                 IN  Bind([x.curr EXCEPT !.inner_pointer = PtrAdd(@, 0 - space)], LAMBDA c1 :
                     Bind(memmove(x.d, ChunkPtr(MapAt(x.d.map, x.dest.outer_pointer)),
                                  c1.inner_pointer, space),
                          LAMBDA d1 :
                     Bind([to_prev_chunk(x.d.map, x.dest) EXCEPT
                              !.inner_pointer = PtrAdd(@, 0 - (CHUNK_SIZE - space))],
                          LAMBDA dl :
                     Bind([d    |-> IF Stop(d1) THEN d1
                                    ELSE memmove(d1, dl.inner_pointer,
                                                 ChunkPtr(MapAt(x.d.map, c1.outer_pointer)),
                                                 CHUNK_SIZE - space),
                           curr |-> to_prev_chunk(x.d.map, c1),
                           dest |-> dl],
                          LAMBDA z : Loop(z)))))
    IN  IF IterEq(first, last0) THEN [d |-> d, curr |-> last0, dest |-> d_last0]
        ELSE
        Bind(IF last0.inner_pointer = ChunkPtr(MapAt(d.map, last0.outer_pointer))
             THEN to_prev_chunk(d.map, last0) ELSE last0,
             LAMBDA last :
        Bind(IF d_last0.inner_pointer = ChunkPtr(MapAt(d.map, d_last0.outer_pointer))
             THEN to_prev_chunk(d.map, d_last0) ELSE d_last0,
             LAMBDA d_last :
        Bind(IF last.outer_pointer # first.outer_pointer
             THEN \* the last chunk
                  Bind(deque_memmove_backward_helper(
                           [d |-> d, curr |-> last, dest |-> d_last],
                           PtrDiff(last.inner_pointer,
                                   ChunkPtr(MapAt(d.map, last.outer_pointer)))),
                       LAMBDA h0 : [h0 EXCEPT !.curr = to_prev_chunk(h0.d.map, h0.curr)])
             ELSE [d |-> d, curr |-> last, dest |-> d_last],
             LAMBDA x0 :
        Bind(Loop(x0), LAMBDA x1 :
        \* the first chunk
        Bind(deque_memmove_backward_helper(
                 x1, PtrDiff(x1.curr.inner_pointer, first.inner_pointer)),
             LAMBDA x2 :
        IF x2.dest.inner_pointer = x2.dest.chunk_end
        THEN [x2 EXCEPT !.dest = to_next_chunk(x2.d.map, x2.dest)]
        ELSE x2)))))

\* deque_try_move_backwards<NoThrowMove>(first, last, d_last)
deque_try_move_backwards(d, first, last, d_last) ==
    IF d.trivial
    THEN deque_move_backwards_with_memmove(d, first, last, d_last).d
    ELSE try_move_backwards(d, first, last, d_last)

------------------------------------------------------------------------------
\* erase and resize

\* uninitialized_fill(first, first + n, value, allocator): copies of value are
\* constructed front to back; if a constructor throws, the copies made so far
\* are destroyed and the exception leaves
uninitialized_fill(d, first, n, value) ==
    LET RECURSIVE Go(_, _)
        Go(e, i) ==
            IF i >= n THEN e
            ELSE Bind(construct(e, IterPlus(e.map, first, i).inner_pointer, value),
                      LAMBDA e1 :
                 IF e1.threw
                 THEN Caught(e1, LAMBDA u :
                          destroy(u, first, IterPlus(u.map, first, i)))
                 ELSE IF Stop(e1) THEN e1
                 ELSE Go(e1, i + 1))
    IN  Go(d, 0)

\* destroy(rfirst, rlast, allocator) on reverse iterators: the elements from
\* the one rfirst designates down to the one after the one rlast designates
destroy_reverse(d, rfirst, rlast) ==
    LET n == IterDiff(rfirst, rlast)
        RECURSIVE Go(_, _)
        Go(e, i) ==
            IF i >= n THEN e
            ELSE Then(destroy_at(e, IterPlus(e.map, rfirst, 0 - i).inner_pointer),
                      LAMBDA e1 : Go(e1, i + 1))
    IN  IF n < 0 THEN Fault(d, "destroy of a range with first > last") ELSE Go(d, 0)

erase_shift_begin(d, first, last) ==
    Then(deque_try_move_backwards(d, d.begin_iterator, first, last), LAMBDA m :
    Bind(IterPlus(m.map, m.begin_iterator, IterDiff(last, first)),
         LAMBDA new_begin_iterator :
    Then(destroy(m, m.begin_iterator, new_begin_iterator), LAMBDA e :
    [e EXCEPT !.begin_iterator = new_begin_iterator])))

\* an erase_shift_end that leaves end_iterator where the reverse iterator
\* new_end_iterator points
erase_shift_end_unadvanced(d, first, last) ==
    Then(deque_try_move(d, last, d.end_iterator, first), LAMBDA m :
    Bind(IterPrev(m.map, m.end_iterator), LAMBDA rbegin :
    Bind(IterPlus(m.map, rbegin, 0 - IterDiff(last, first)),
         LAMBDA new_end_iterator :
    Then(destroy_reverse(m, rbegin, new_end_iterator), LAMBDA e :
    [e EXCEPT !.end_iterator = new_end_iterator]))))

erase_shift_end(d, first, last) ==
    Then(deque_try_move(d, last, d.end_iterator, first), LAMBDA m :
    Bind(IterPrev(m.map, m.end_iterator), LAMBDA rbegin :
    Bind(IterPlus(m.map, rbegin, 0 - IterDiff(last, first)),
         LAMBDA new_end_iterator :
    Then(destroy_reverse(m, rbegin, new_end_iterator), LAMBDA e :
    [e EXCEPT !.end_iterator = IterNext(e.map, new_end_iterator)]))))

\* erase(first, last)
erase(d0, first, last) ==
    Bind(Mark(d0, "erase"), LAMBDA d :
    LET before == IterDiff(first, d.begin_iterator)
        after  == IterDiff(d.end_iterator, last)
    IN  Then(IF before <= after
             THEN erase_shift_begin(Mark(d, "erase_shift_begin"), first, last)
             ELSE erase_shift_end(Mark(d, "erase_shift_end"), first, last),
             LAMBDA e :
        [e EXCEPT !.ret = IterPlus(e.map, e.begin_iterator, before)]))

\* what an insert_shift_begin or insert_shift_end that was entered with d0 and
\* the position pos0 and returned with m and the iterators ub
\* (uninitialized_begin) and ib (initialized_begin) left: the gap is the amount
\* slots that end at the slot pos0 designated (insert_shift_begin) or begin at
\* it (insert_shift_end); whether the two iterators cut it in two, whether
\* every slot of the part called initialized held an element on entry and
\* holds one, and whether every slot of the part called uninitialized was raw
\* on entry and is raw
ShiftGap(d0, m, side, amount, pos0, ub, ib) ==
    LET first == IF side = "begin" THEN ub ELSE ib
        split == IF side = "begin" THEN IterDiff(ib, ub) ELSE IterDiff(ub, ib)
        Slot(k) == IterPlus(m.map, first, k).inner_pointer
        WasLive(p) == p.c \in Allocated(d0.heap) /\ d0.heap[p.c][p.o + 1] # 0
        Holds(p) == ValidSlot(m.heap, p) /\ m.heap[p.c][p.o + 1] # 0
        Raw(p) == ValidSlot(m.heap, p) /\ m.heap[p.c][p.o + 1] = 0
    IN  [side |-> side,
         amount |-> amount,
         split |-> split,
         exact |-> /\ split \in 0..amount
                   /\ IF side = "begin"
                      THEN IterPlus(m.map, first, amount).inner_pointer
                               = pos0.inner_pointer
                      ELSE first.inner_pointer = pos0.inner_pointer,
         initialized |->
             \A k \in (IF side = "begin" THEN split..(amount - 1) ELSE 0..(split - 1)) :
                 WasLive(Slot(k)) /\ Holds(Slot(k)),
         uninitialized |->
             \A k \in (IF side = "begin" THEN 0..(split - 1) ELSE split..(amount - 1)) :
                 ~WasLive(Slot(k)) /\ Raw(Slot(k))]

\* gap records what an insert_shift_begin or insert_shift_end that returned
\* left
LeaveShift(d0, s, side, amount, pos0) ==
    IF Stop(s.d) THEN s
    ELSE [s EXCEPT !.d = [s.d EXCEPT !.gap = ShiftGap(d0, s.d, side, amount, pos0,
                                                       s.uninitialized_begin,
                                                       s.initialized_begin)]]

\* the loop of insert_shift_end that allocates the chunks [end_chunk, fill_end)
\* the allocation loop of insert_shift_end without its catch block
AllocLoopShiftLeaking(d, fill_end) ==
    LET RECURSIVE Go(_, _)
        Go(e, p) ==
            IF p >= fill_end THEN [e EXCEPT !.end_chunk = fill_end]
            ELSE Bind(NewChunk(e.heap), LAMBDA c :
                 Bind(allocate(Mark(e, "insert_shift_end/allocate")), LAMBDA e1 :
                 IF e1.threw THEN Mark(e1, "allocate/failed")
                 ELSE IF Stop(e1) THEN e1
                 ELSE Then(MapStore(e1, p, c), LAMBDA e2 : Go(e2, p + 1))))
    IN  Go(d, d.end_chunk)

AllocLoopShift(d, fill_end) ==
    LET RECURSIVE Undo(_, _, _)
        Undo(e, q, p) ==
            IF q >= p THEN e
            ELSE Then(deallocate(Mark(e, "allocate/freed"), MapAt(e.map, q)),
                      LAMBDA e1 : Undo(e1, q + 1, p))
        RECURSIVE Go(_, _)
        Go(e, p) ==
            IF p >= fill_end THEN [e EXCEPT !.end_chunk = fill_end]
            ELSE Bind(NewChunk(e.heap), LAMBDA c :
                 Bind(allocate(Mark(e, "insert_shift_end/allocate")), LAMBDA e1 :
                 IF e1.threw
                 THEN Caught(Mark(e1, "allocate/failed"),
                             LAMBDA u : Undo(u, u.end_chunk, p))
                 ELSE IF Stop(e1) THEN e1
                 ELSE Then(MapStore(e1, p, c), LAMBDA e2 : Go(e2, p + 1))))
    IN  Go(d, d.end_chunk)

\* it1 <= it2
IterLe(a, b) == IterDiff(a, b) <= 0

\* try_uninitialized_move<NoThrowMove>(rfirst, rlast, rdest, allocator) on
\* reverse iterators, each given by the element it designates: the elements
\* from the one rfirst designates down to the one after the one rlast
\* designates are move-constructed into the slots from rdest downward
try_uninitialized_move_reverse(d, rfirst, rlast, rdest) ==
    LET n == IterDiff(rfirst, rlast)
        RECURSIVE Go(_, _)
        Go(e, i) ==
            IF i >= n THEN e
            ELSE Then(move_construct(e, IterPlus(e.map, rdest, 0 - i).inner_pointer,
                                     IterPlus(e.map, rfirst, 0 - i).inner_pointer),
                      LAMBDA e1 : Go(e1, i + 1))
    IN  IF n < 0 THEN Fault(d, "move of a range with first > last") ELSE Go(d, 0)

\* the part of insert_shift_end that moves the suffix [pos, end_iterator) to
\* the slots that end at new_end_iterator
ShiftSuffix(d, pos, amount, offset, new_end_iterator) ==
    LET moved_dest_begin == IterPlus(d.map, new_end_iterator, 0 - offset)
        uninitialized_src_begin ==
            IF IterLe(d.end_iterator, moved_dest_begin) THEN pos
            ELSE IterPlus(d.map, pos, IterDiff(d.end_iterator, moved_dest_begin))
        initialized_count == IterDiff(uninitialized_src_begin, pos)
    IN  Bind(Then(try_uninitialized_move_reverse(
                      d, IterPrev(d.map, d.end_iterator),
                      IterPrev(d.map, uninitialized_src_begin),
                      IterPrev(d.map, new_end_iterator)),
                  LAMBDA m1 :
             Then(deque_try_move_backwards(
                      m1, pos, uninitialized_src_begin,
                      IterPlus(m1.map, moved_dest_begin, initialized_count)),
                  LAMBDA m2 :
             [m2 EXCEPT !.end_iterator = new_end_iterator])),
             LAMBDA m :
        [d |-> m,
         initialized_begin |-> pos,
         uninitialized_begin |->
             IF IterLe(moved_dest_begin, d.end_iterator)
             THEN IF amount = 1 THEN IterNext(d.map, pos)
                  ELSE IterPlus(d.map, pos, amount)
             ELSE d.end_iterator])

\* insert_shift_end(pos, space, initialized_begin, uninitialized_begin); the
\* result is the deque and the two iterators passed by reference
insert_shift_end(d0, pos0, space) ==
    LET amount == space
        offset == IterDiff(d0.end_iterator, pos0)
        remain == IterDiff(iterator(d0.map, d0.num_chunks,
                                    ChunkPtr(MapAt(d0.map, d0.num_chunks))),
                           d0.end_iterator)
        ghost_end == IterDiff(d0.end_iterator,
                              iterator(d0.map, 0, ChunkPtr(MapAt(d0.map, 0)))) + amount
        new_end_chunk == TruncDiv(ghost_end, CHUNK_SIZE) + 1
        fill_end == IterPlus(d0.map, d0.end_iterator, amount).outer_pointer + 1
    IN  Bind(Bind(IF remain <= amount
             THEN make_room_end(Mark(d0, "insert_shift_end"),
                                new_end_chunk - (d0.end_iterator.outer_pointer + 1))
             ELSE IF d0.end_chunk < fill_end
             THEN AllocLoopShift(Mark(d0, "insert_shift_end"), fill_end)
             ELSE Mark(d0, "insert_shift_end"),
             LAMBDA d :
        IF Stop(d)
        THEN [d |-> d, initialized_begin |-> pos0, uninitialized_begin |-> pos0]
        ELSE Bind(IterPlus(d.map, d.end_iterator, 0 - offset), LAMBDA pos :
             Bind(IF amount = 1 THEN IterNext(d.map, d.end_iterator)
                  ELSE IterPlus(d.map, d.end_iterator, amount),
                  LAMBDA new_end_iterator :
             IF offset = 0
             THEN [d |-> [d EXCEPT !.end_iterator = new_end_iterator],
                   initialized_begin |-> pos, uninitialized_begin |-> pos]
             ELSE ShiftSuffix(Mark(d, "insert_shift_end/move"), pos, amount, offset,
                              new_end_iterator)))),
        LAMBDA s : LeaveShift(d0, s, "end", space, pos0))

\* resize(count, value)
resize(d0, count, value) ==
    Bind(Mark(d0, "resize"), LAMBDA d :
    LET num_elements == size(d)
    IN  IF count = num_elements THEN d
        ELSE IF count < num_elements
        THEN erase(d, IterPlus(d.map, d.end_iterator, 0 - (num_elements - count)),
                   d.end_iterator)
        ELSE Bind(insert_shift_end(d, d.end_iterator, count - num_elements), LAMBDA s :
             IF Stop(s.d) THEN s.d
             ELSE uninitialized_fill(Mark(s.d, "resize/fill"), s.uninitialized_begin,
                                     count - num_elements, value)))

------------------------------------------------------------------------------
\* insert

\* the loop of insert_shift_begin that allocates the chunks
\* [fill_start, begin_chunk)
AllocLoopShiftBegin(d, fill_start) ==
    LET RECURSIVE Undo(_, _, _)
        Undo(e, q, p) ==
            IF q >= p THEN e
            ELSE Then(deallocate(Mark(e, "allocate/freed"), MapAt(e.map, q)),
                      LAMBDA e1 : Undo(e1, q + 1, p))
        RECURSIVE Go(_, _)
        Go(e, p) ==
            IF p >= e.begin_chunk THEN [e EXCEPT !.begin_chunk = fill_start]
            ELSE Bind(NewChunk(e.heap), LAMBDA c :
                 Bind(allocate(Mark(e, "insert_shift_begin/allocate")), LAMBDA e1 :
                 IF e1.threw
                 THEN Caught(Mark(e1, "allocate/failed"),
                             LAMBDA u : Undo(u, fill_start, p))
                 ELSE IF Stop(e1) THEN e1
                 ELSE Then(MapStore(e1, p, c), LAMBDA e2 : Go(e2, p + 1))))
    IN  Go(d, fill_start)

\* the part of insert_shift_begin that moves the prefix [begin_iterator, pos)
\* to the slots that begin at new_begin_iterator
ShiftPrefix(d, pos, offset, new_begin_iterator, uninitialized_begin) ==
    LET uninitialized_src_end ==
            IF IterLe(uninitialized_begin, d.begin_iterator) THEN pos
            ELSE IterPlus(d.map, pos,
                          0 - IterDiff(uninitialized_begin, d.begin_iterator))
        cont == IterPlus(d.map, new_begin_iterator,
                         IterDiff(uninitialized_src_end, d.begin_iterator))
    IN  Bind(Then(try_uninitialized_move(d, d.begin_iterator, uninitialized_src_end,
                                         new_begin_iterator),
                  LAMBDA m1 :
             Then(deque_try_move(m1, uninitialized_src_end, pos, cont), LAMBDA m2 :
             [m2 EXCEPT !.begin_iterator = new_begin_iterator])),
             LAMBDA m :
        [d |-> m,
         uninitialized_begin |-> uninitialized_begin,
         initialized_begin |->
             IF IterLe(uninitialized_begin, d.begin_iterator)
             THEN d.begin_iterator
             ELSE uninitialized_begin])

\* insert_shift_begin(pos, space, uninitialized_begin, initialized_begin); the
\* result is the deque and the two iterators passed by reference
insert_shift_begin(d0, pos0, space) ==
    LET amount == space
        offset == IterDiff(pos0, d0.begin_iterator)
        remain == IterDiff(d0.begin_iterator,
                           iterator(d0.map, 0, ChunkPtr(MapAt(d0.map, 0))))
        ghost_begin == remain - amount
        \* rounded down
        ghost_begin_chunk ==
            TruncDiv(ghost_begin, CHUNK_SIZE)
            - (IF ghost_begin < 0 /\ (0 - ghost_begin) % CHUNK_SIZE # 0 THEN 1 ELSE 0)
        fill_start == IterPlus(d0.map, d0.begin_iterator, 0 - amount).outer_pointer
    IN  Bind(Bind(IF remain < amount
             THEN make_room_begin(Mark(d0, "insert_shift_begin"),
                                  d0.begin_iterator.outer_pointer - ghost_begin_chunk)
             ELSE IF fill_start < d0.begin_chunk
             THEN AllocLoopShiftBegin(Mark(d0, "insert_shift_begin"), fill_start)
             ELSE Mark(d0, "insert_shift_begin"),
             LAMBDA d :
        IF Stop(d)
        THEN [d |-> d, uninitialized_begin |-> pos0, initialized_begin |-> pos0]
        ELSE Bind(IterPlus(d.map, d.begin_iterator, offset), LAMBDA pos :
             Bind(IterPlus(d.map, d.begin_iterator, 0 - amount),
                  LAMBDA new_begin_iterator :
             Bind(IterPlus(d.map, new_begin_iterator, offset),
                  LAMBDA uninitialized_begin :
             IF offset = 0
             THEN [d |-> [d EXCEPT !.begin_iterator = new_begin_iterator],
                   uninitialized_begin |-> uninitialized_begin,
                   initialized_begin |-> IterPlus(d.map, uninitialized_begin, amount)]
             ELSE ShiftPrefix(Mark(d, "insert_shift_begin/move"), pos, offset,
                              new_begin_iterator, uninitialized_begin))))),
        LAMBDA s : LeaveShift(d0, s, "begin", space, pos0))

\* *p = value by copy assignment; the copy assignment of a T that is not
\* trivially copyable may throw
copy_assign(d, p, value) ==
    IF d.fuel = 0 /\ ~d.trivial THEN Throw(d)
    ELSE IF ~ValidSlot(d.heap, p)
    THEN Fault(d, "assignment through a pointer to no element slot")
    ELSE IF d.heap[p.c][p.o + 1] = 0
    THEN Fault(d, "assignment to raw memory")
    ELSE [d EXCEPT !.fuel = IF d.trivial THEN @ ELSE @ - 1,
                   !.heap[p.c][p.o + 1] = value]

\* a std::fill_n that stops one element early
fill_n_one_short(d, first, n, value) ==
    LET RECURSIVE Go(_, _)
        Go(e, i) ==
            IF i >= n - 1 THEN e
            ELSE Then(copy_assign(e, IterPlus(e.map, first, i).inner_pointer, value),
                      LAMBDA e1 : Go(e1, i + 1))
    IN  Go(d, 0)

\* a std::fill_n that constructs in the slots instead of assigning to them
fill_n_constructing(d, first, n, value) ==
    uninitialized_fill(d, first, n, value)

\* std::fill_n(first, n, value)
fill_n(d, first, n, value) ==
    LET RECURSIVE Go(_, _)
        Go(e, i) ==
            IF i >= n THEN e
            ELSE Then(copy_assign(e, IterPlus(e.map, first, i).inner_pointer, value),
                      LAMBDA e1 : Go(e1, i + 1))
    IN  Go(d, 0)

\* insert_single_helper(pos, value)
insert_single_helper(d0, pos, value) ==
    Bind(Mark(d0, "insert_single_helper"), LAMBDA d :
    IF IterEq(pos, d.begin_iterator)
    THEN Then(push_front(d, value), LAMBDA r : [r EXCEPT !.ret = r.begin_iterator])
    ELSE IF IterEq(pos, d.end_iterator)
    THEN Then(push_back(d, value), LAMBDA r :
              [r EXCEPT !.ret = IterPrev(r.map, r.end_iterator)])
    ELSE
    LET offset == IterDiff(pos, d.begin_iterator)
    IN  Bind(IF offset * 2 <= size(d)
             THEN insert_shift_begin(d, pos, 1)
             ELSE insert_shift_end(d, pos, 1),
             LAMBDA s :
        Then(s.d, LAMBDA s1 :
        Then(destroy_at(Mark(s1, "insert/construct"), s.initialized_begin.inner_pointer),
             LAMBDA s2 :
        Then(construct(s2, s.initialized_begin.inner_pointer, value), LAMBDA s3 :
        [s3 EXCEPT !.ret = s.initialized_begin])))))

\* an insert that shifts the elements from pos to the end whatever pos is
insert_shifting_suffix(d0, pos, count, value) ==
    Bind(Mark(d0, "insert"), LAMBDA d :
    Bind(IterDiff(pos, d.begin_iterator), LAMBDA offset :
    Then(Bind(insert_shift_end(d, pos, count), LAMBDA s :
         Then(s.d, LAMBDA s1 :
         Then(fill_n(Mark(s1, "insert/fill"), s.initialized_begin,
                     IterDiff(s.uninitialized_begin, s.initialized_begin), value),
              LAMBDA s2 :
         uninitialized_fill(
             s2, s.uninitialized_begin,
             count - IterDiff(s.uninitialized_begin, s.initialized_begin), value)))),
         LAMBDA r :
    [r EXCEPT !.ret = IterPlus(r.map, r.begin_iterator, offset)])))

\* insert(pos, count, value)
insert(d0, pos, count, value) ==
    IF count = 1 THEN insert_single_helper(Mark(d0, "insert"), pos, value)
    ELSE
    Bind(Mark(d0, "insert"), LAMBDA d :
    LET offset == IterDiff(pos, d.begin_iterator)
    IN  Then(IF offset * 2 <= size(d)
             THEN Bind(insert_shift_begin(d, pos, count), LAMBDA s :
                  Then(s.d, LAMBDA s1 :
                  Then(uninitialized_fill(
                           Mark(s1, "insert/fill"), s.uninitialized_begin,
                           IterDiff(s.initialized_begin, s.uninitialized_begin), value),
                       LAMBDA s2 :
                  fill_n(s2, s.initialized_begin,
                         count - IterDiff(s.initialized_begin, s.uninitialized_begin),
                         value))))
             ELSE Bind(insert_shift_end(d, pos, count), LAMBDA s :
                  Then(s.d, LAMBDA s1 :
                  Then(fill_n(Mark(s1, "insert/fill"), s.initialized_begin,
                              IterDiff(s.uninitialized_begin, s.initialized_begin),
                              value),
                       LAMBDA s2 :
                  uninitialized_fill(
                      s2, s.uninitialized_begin,
                      count - IterDiff(s.uninitialized_begin, s.initialized_begin),
                      value)))),
             LAMBDA r :
        [r EXCEPT !.ret = IterPlus(r.map, r.begin_iterator, offset)]))

\* uninitialized_copy(first, first + Len(vals), dest, allocator) from a range
\* that holds vals: the copies are constructed front to back; if a
\* constructor throws, the copies made so far are destroyed and the exception
\* leaves
uninitialized_copy(d, vals, dest) ==
    LET RECURSIVE Go(_, _)
        Go(e, i) ==
            IF i >= Len(vals) THEN e
            ELSE Bind(construct(e, IterPlus(e.map, dest, i).inner_pointer, vals[i + 1]),
                      LAMBDA e1 :
                 IF e1.threw
                 THEN Caught(e1, LAMBDA u :
                          destroy(u, dest, IterPlus(u.map, dest, i)))
                 ELSE IF Stop(e1) THEN e1
                 ELSE Go(e1, i + 1))
    IN  Go(d, 0)

\* std::copy_n(first, Len(vals), dest) from a range that holds vals
copy_n(d, vals, dest) ==
    LET RECURSIVE Go(_, _)
        Go(e, i) ==
            IF i >= Len(vals) THEN e
            ELSE Then(copy_assign(e, IterPlus(e.map, dest, i).inner_pointer,
                                  vals[i + 1]),
                      LAMBDA e1 : Go(e1, i + 1))
    IN  Go(d, 0)

\* insert(pos, first, last) for forward iterators over a range that holds vals
insert_range(d0, pos, vals) ==
    LET count == Len(vals)
    IN  IF count = 0 THEN [d0 EXCEPT !.ret = pos]
        ELSE IF count = 1
        THEN insert_single_helper(Mark(d0, "insert"), pos, vals[1])
        ELSE
        Bind(Mark(d0, "insert"), LAMBDA d :
        LET offset == IterDiff(pos, d.begin_iterator)
        IN  Then(IF offset * 2 <= size(d)
                 THEN Bind(insert_shift_begin(d, pos, count), LAMBDA s :
                      Bind(IterDiff(s.initialized_begin, s.uninitialized_begin),
                           LAMBDA uninitialized_count :
                      Then(s.d, LAMBDA s1 :
                      Then(uninitialized_copy(
                               Mark(s1, "insert/fill"),
                               SubSeq(vals, 1, uninitialized_count),
                               s.uninitialized_begin),
                           LAMBDA s2 :
                      copy_n(s2, SubSeq(vals, uninitialized_count + 1, count),
                             s.initialized_begin)))))
                 ELSE Bind(insert_shift_end(d, pos, count), LAMBDA s :
                      Bind(IterDiff(s.uninitialized_begin, s.initialized_begin),
                           LAMBDA initialized_count :
                      Then(s.d, LAMBDA s1 :
                      Then(copy_n(Mark(s1, "insert/fill"),
                                  SubSeq(vals, 1, initialized_count),
                                  s.initialized_begin),
                           LAMBDA s2 :
                      uninitialized_copy(
                          s2, SubSeq(vals, initialized_count + 1, count),
                          s.uninitialized_begin))))),
                 LAMBDA r :
            [r EXCEPT !.ret = IterPlus(r.map, r.begin_iterator, offset)]))

\* deque(first, last) over a range that holds vals: the default constructor,
\* then insert(begin_iterator, first, last)
range_constructor(tr, vals, f) ==
    Then(fill_helper(tr, 0, 1, f), LAMBDA d :
    insert_range(d, d.begin_iterator, vals))

\* a deque whose constructor threw: the cleaner has freed its map array, and
\* the chunks it did not deallocate stay allocated
Dead(d) ==
    [d EXCEPT !.num_chunks = 0, !.map = [i \in (0 - 1)..0 |-> 0],
              !.begin_chunk = 0, !.end_chunk = 0,
              !.begin_iterator = iterator(<<>>, 0, NULL),
              !.end_iterator = iterator(<<>>, 0, NULL)]

\* the allocation loop of copy_constructor_helper and its catch block
CopyAllocLoop(d) ==
    LET RECURSIVE Undo(_, _, _)
        Undo(e, p, curr) ==
            IF p >= curr THEN e
            ELSE Then(deallocate(e, MapAt(e.map, p)),
                      LAMBDA e1 : Undo(e1, p + 1, curr))
        RECURSIVE Go(_, _)
        Go(e, curr) ==
            IF curr >= e.end_chunk THEN e
            ELSE Bind(NewChunk(e.heap), LAMBDA c :
                 Bind(allocate(e), LAMBDA e1 :
                 IF e1.threw
                 THEN Caught(Mark(e1, "allocate/failed"),
                             LAMBDA u : Undo(u, u.begin_chunk, curr))
                 ELSE Then(e1, LAMBDA e2 :
                      Then(MapStore(e2, curr, c), LAMBDA e3 : Go(e3, curr + 1)))))
    IN  Go(d, d.begin_chunk)

\* iterator(begin_chunk, *begin_chunk + (other_begin.inner_pointer
\*                                      - *other_begin.outer_pointer))
CopyBegin(d, other) ==
    iterator(d.map, d.begin_chunk,
             PtrAdd(ChunkPtr(MapAt(d.map, d.begin_chunk)),
                    PtrDiff(other.begin_iterator.inner_pointer,
                            ChunkPtr(MapAt(other.map,
                                           other.begin_iterator.outer_pointer)))))

\* deque(const deque& other): num_chunks(other.num_chunks), then
\* copy_constructor_helper(other); f fallible calls are left to succeed.  The
\* new deque has its own chunks, and other is only read.
copy_constructor(other, f) ==
    Bind(allocate_map([Blank(other.trivial, f) EXCEPT !.num_chunks = other.num_chunks],
                      other.num_chunks), LAMBDA d0 :
    IF Stop(d0) THEN Dead(d0) ELSE
    Bind(Then(CopyAllocLoop([d0 EXCEPT !.map = [i \in (0 - 1)..other.num_chunks |-> 0],
                                       !.begin_chunk = other.begin_chunk,
                                       !.end_chunk = other.end_chunk]),
              LAMBDA d1 :
         Bind(CopyBegin(d1, other), LAMBDA bi :
         Then(uninitialized_copy([d1 EXCEPT !.begin_iterator = bi],
                                 Elements(other), bi), LAMBDA d2 :
         [d2 EXCEPT !.end_iterator = IterPlus(d2.map, bi, size(other))]))),
         LAMBDA d3 :
    IF d3.threw THEN Dead(d3) ELSE d3))

\* ~deque()
destructor(d) ==
    LET RECURSIVE Go(_, _)
        Go(e, p) ==
            IF p >= e.end_chunk THEN e
            ELSE Then(deallocate(e, MapAt(e.map, p)), LAMBDA e1 : Go(e1, p + 1))
    IN  Then(destroy(d, d.begin_iterator, d.end_iterator), LAMBDA d1 :
        Go(d1, d1.begin_chunk))

\* an operator= that never copies in place
copy_and_swap(d, other, self) ==
    IF self THEN d
    ELSE Bind(copy_constructor(other, d.fuel), LAMBDA tmp :
         IF tmp.threw THEN [d EXCEPT !.threw = TRUE, !.fuel = tmp.fuel, !.path = tmp.path]
         ELSE Then(tmp, LAMBDA t1 :
              Bind(destructor(d), LAMBDA old :
              IF old.fault # "" THEN Fault(t1, old.fault)
              ELSE Mark(t1, "operator=/swap"))))

\* an operator= that keeps the elements it finds in the way of the copies
copy_assignment_keeping(d, other, self) ==
    IF self \/ ~d.trivial \/ size(d) = 0 THEN copy_and_swap(d, other, self)
    ELSE Mark(d, "operator=/in place")

\* operator=(const deque& other) of the deque d; self is this == &other.  A T
\* that is trivially copyable is nothrow copy constructible and nothrow
\* destructible, the other T of the model is not.  The temporary of the
\* copy-and-swap path is destroyed with what d held.
copy_assignment(d, other, self) ==
    IF self THEN d
    ELSE
    LET total_capacity == (d.end_chunk - d.begin_chunk) * CHUNK_SIZE
        other_size == size(other)
    IN  IF d.trivial /\ total_capacity >= other_size
        THEN Then(destroy(Mark(d, "operator=/in place"),
                          d.begin_iterator, d.end_iterator), LAMBDA d1 :
             Bind(IterPlus(d1.map,
                           iterator(d1.map, d1.begin_chunk,
                                    ChunkPtr(MapAt(d1.map, d1.begin_chunk))),
                           (total_capacity - other_size) \div 2), LAMBDA bi :
             Then(uninitialized_copy([d1 EXCEPT !.begin_iterator = bi],
                                     Elements(other), bi), LAMBDA d2 :
             [d2 EXCEPT !.end_iterator = IterPlus(d2.map, bi, other_size)])))
        ELSE copy_and_swap(d, other, self)

\* assign(first, last) over a range that holds vals
assign(d0, vals) ==
    Then(clear(Mark(d0, "assign")), LAMBDA d :
    insert_range(d, d.begin_iterator, vals))

\* an erase(pos) that shifts over the element after pos
erase_at_next(d0, pos) ==
    Bind(Mark(d0, "erase"), LAMBDA d :
    IF IterEq(pos, d.begin_iterator)
    THEN Then(pop_front(d), LAMBDA r : [r EXCEPT !.ret = r.begin_iterator])
    ELSE IF IterDiff(d.end_iterator, pos) = 1
    THEN Then(pop_back(d), LAMBDA r : [r EXCEPT !.ret = r.end_iterator])
    ELSE
    LET offset == IterDiff(pos, d.begin_iterator)
    IN  Then(IF offset * 2 <= size(d)
             THEN erase_shift_begin(Mark(d, "erase_shift_begin"), IterNext(d.map, pos),
                                    IterPlus(d.map, pos, 2))
             ELSE erase_shift_end(Mark(d, "erase_shift_end"), IterNext(d.map, pos),
                                  IterPlus(d.map, pos, 2)),
             LAMBDA r :
        [r EXCEPT !.ret = IterPlus(r.map, r.begin_iterator, offset)]))

\* erase(pos)
erase_at(d0, pos) ==
    Bind(Mark(d0, "erase"), LAMBDA d :
    IF IterEq(pos, d.begin_iterator)
    THEN Then(pop_front(d), LAMBDA r : [r EXCEPT !.ret = r.begin_iterator])
    ELSE IF IterDiff(d.end_iterator, pos) = 1
    THEN Then(pop_back(d), LAMBDA r : [r EXCEPT !.ret = r.end_iterator])
    ELSE
    LET offset == IterDiff(pos, d.begin_iterator)
    IN  Then(IF offset * 2 <= size(d)
             THEN erase_shift_begin(Mark(d, "erase_shift_begin"), pos,
                                    IterNext(d.map, pos))
             ELSE erase_shift_end(Mark(d, "erase_shift_end"), pos,
                                  IterNext(d.map, pos)),
             LAMBDA r :
        [r EXCEPT !.ret = IterPlus(r.map, r.begin_iterator, offset)]))

------------------------------------------------------------------------------
\* The state machine: one deque object and the calls made on it

VARIABLES
    num_chunks, begin_chunk, end_chunk, data, map,  \* the deque's fields
    begin_iterator, end_iterator,
    heap,       \* the chunks the element allocator has handed out
    trivial,    \* whether T is trivially copyable (the instantiation)
    fault,      \* "" or the undefined behaviour the last call executed
    op,         \* the last public operation called
    threw,      \* whether it exited by exception
    path,       \* the branches it took
    mr,         \* what its make_room_* left unchanged, if that threw
    room,       \* what its make_room_* did, if that returned
    eff,        \* what the call itself left unchanged
    call,       \* the arguments and the result of the last insert or erase
    abs         \* the contents a plain list would have after the same calls

vars == <<num_chunks, begin_chunk, end_chunk, data, map, begin_iterator,
          end_iterator, heap, trivial, fault, op, threw, path, mr, room, eff,
          call, abs>>

\* the deque as the operators take it, with f fallible calls left to succeed
Cur(f) ==
    [num_chunks |-> num_chunks, begin_chunk |-> begin_chunk,
     end_chunk |-> end_chunk, data |-> data, map |-> map,
     begin_iterator |-> begin_iterator, end_iterator |-> end_iterator,
     heap |-> heap, trivial |-> trivial,
     fuel |-> f, threw |-> FALSE, fault |-> "", oob |-> FALSE,
     path |-> {}, nm |-> <<>>, mr |-> <<>>, ret |-> <<>>, wide |-> FALSE,
     room |-> <<>>, gap |-> <<>>]

\* The element allocator may return any address that is not in use, so chunk
\* numbers mean nothing beyond equality.  Renumber(d) is the renumbering that
\* names the chunks in the order in which the map, then the cursors, then the
\* allocator mention them; every state is kept in that numbering.
Mentions(d) ==
    [i \in 1..(d.num_chunks + 2) |-> d.map[i - 2]]
    \o <<d.begin_iterator.chunk_begin.c, d.begin_iterator.inner_pointer.c,
         d.begin_iterator.chunk_end.c, d.end_iterator.chunk_begin.c,
         d.end_iterator.inner_pointer.c, d.end_iterator.chunk_end.c>>
    \o [c \in ChunkIds |-> IF d.heap[c] # <<>> THEN c ELSE 0]

Renumber(d) ==
    LET RECURSIVE Go(_, _, _, _)
        Go(ms, i, f, n) ==
            IF i > Len(ms) THEN f
            ELSE IF ms[i] = 0 \/ f[ms[i]] # 0 THEN Go(ms, i + 1, f, n)
            ELSE Bind([f EXCEPT ![ms[i]] = n + 1], LAMBDA g : Go(ms, i + 1, g, n + 1))
    IN  Bind(Mentions(d), LAMBDA ms : Go(ms, 1, [c \in 0..MaxGrowIds |-> 0], 0))

RenPtr(ren, p) == [c |-> ren[p.c], o |-> p.o]

RenIter(ren, it) ==
    [outer_pointer |-> it.outer_pointer,
     inner_pointer |-> RenPtr(ren, it.inner_pointer),
     chunk_begin |-> RenPtr(ren, it.chunk_begin),
     chunk_end |-> RenPtr(ren, it.chunk_end)]

RenHeap(ren, h) ==
    [c \in ChunkIds |->
        IF \E e \in ChunkIds : ren[e] = c
        THEN h[CHOOSE e \in ChunkIds : ren[e] = c]
        ELSE <<>>]

\* the address of the element at index i
ElemPtr(d, i) == IterPlus(d.map, d.begin_iterator, i).inner_pointer

\* the index in the result of the element a call found at index i
Shifted(name, r, i) ==
    IF r.threw THEN i
    ELSE IF name = "push_front" THEN i + 1
    ELSE IF name = "pop_front" THEN i - 1
    ELSE i

\* what the call named name, made on c and ending in r, left as it was: the
\* contents, the size, the slots the cursors designate, the address of every
\* element that is in the deque before and after the call, whether the slot
\* end_iterator designates is raw, each part of the state, the set of
\* allocated chunks, and whether the call is a shrink_to_fit made right after
\* a shrink_to_fit that returned
Effect(c, r, name) ==
    IF r.fault # "" \/ name \in {"deque(n, value)", "deque(other)", "operator="}
    THEN <<>>
    ELSE [elements |-> Elements(r) = Elements(c),
          size |-> size(r) = size(c),
          first |-> r.begin_iterator.inner_pointer = c.begin_iterator.inner_pointer,
          last |-> r.end_iterator.inner_pointer = c.end_iterator.inner_pointer,
          in_place |-> \A i \in 0..(size(c) - 1) :
                          Shifted(name, r, i) \in 0..(size(r) - 1)
                              => ElemPtr(r, Shifted(name, r, i)) = ElemPtr(c, i),
          end_raw |-> /\ ValidSlot(r.heap, r.end_iterator.inner_pointer)
                      /\ r.heap[r.end_iterator.inner_pointer.c]
                               [r.end_iterator.inner_pointer.o + 1] = 0,
          same |-> IF name \in {"pop_back", "pop_front", "shrink_to_fit", "clear"}
                   THEN Same(c, r) ELSE <<>>,
          allocated |-> Allocated(r.heap) = Allocated(c.heap),
          again |-> name = "shrink_to_fit" /\ op = "shrink_to_fit" /\ ~threw]

\* the indices in c of the elements that an insert or an erase at index pos
\* left at their addresses: r holds them, at the same index when they are
\* before pos and size(r) - size(c) further when they are after
Kept(c, r, pos) ==
    {i \in 0..(size(c) - 1) :
        \E j \in {IF i < pos THEN i ELSE i + size(r) - size(c)} :
            /\ (i < pos \/ j >= pos)
            /\ ElemPtr(r, j) = ElemPtr(c, i)}

\* the arguments in of a call named name that was made on c and ended in r,
\* the iterator it returned and, for an insert, the contents before it; an
\* erase of the iterator an insert returned keeps the contents before that
\* insert; for an insert or an erase that returned, the size it found and
\* the elements it left in place; for an insert, what its insert_shift_* left
Returned(c, r, ren, name, in) ==
    IF name \notin {"insert", "erase", "erase(it)", "deque(n, value)",
                    "deque(other)", "operator="}
    THEN <<>>
    ELSE [in |-> in,
          it |-> IF r.threw \/ r.fault # "" \/ r.ret = <<>> THEN <<>>
                 ELSE RenIter(ren, r.ret),
          before |-> IF name = "erase(it)" THEN call.before
                     ELSE IF name = "insert" THEN Elements(c)
                     ELSE <<>>,
          size |-> IF name \in {"insert", "erase", "erase(it)"} THEN size(c) ELSE 0,
          kept |-> IF name \in {"insert", "erase", "erase(it)"}
                      /\ ~r.threw /\ r.fault = ""
                   THEN Kept(c, r, in.pos) ELSE {},
          gap |-> IF name = "insert" THEN r.gap ELSE <<>>]

\* the call named name, made on c0 with the arguments in, ends in r0; a plain
\* list would hold a after it
Becomes(c0, r0, name, a, in) ==
    \E c \in {c0} : \E r \in {r0} : \E ren \in {Renumber(r)} :
        /\ ~r.oob
        /\ num_chunks' = r.num_chunks
        /\ begin_chunk' = r.begin_chunk
        /\ end_chunk' = r.end_chunk
        /\ data' = 1
        /\ map' = [i \in DOMAIN r.map |-> ren[r.map[i]]]
        /\ begin_iterator' = RenIter(ren, r.begin_iterator)
        /\ end_iterator' = RenIter(ren, r.end_iterator)
        /\ heap' = RenHeap(ren, r.heap)
        /\ trivial' = trivial
        /\ fault' = r.fault
        /\ op' = name
        /\ threw' = r.threw
        /\ path' = r.path
        /\ mr' = r.mr
        /\ room' = r.room
        /\ eff' = Effect(c, r, name)
        /\ call' = Returned(c, r, ren, name, in)
        /\ abs' = IF r.fault # "" THEN abs
                  ELSE IF r.threw
                  THEN \* a list promises nothing about the contents an insert
                       \* leaves when the copy of a value throws; an
                       \* assignment that throws leaves its destination
                       IF name \in {"insert", "assign"} THEN Elements(r)
                       ELSE IF name = "operator=" THEN Elements(c)
                       ELSE abs
                  ELSE a

Init ==
    \E tr \in BOOLEAN, n \in 0..MaxInitN, v \in Values :
        \E r \in {fill_helper(tr, n, v, NoFail)} :
            /\ num_chunks = r.num_chunks
            /\ begin_chunk = r.begin_chunk
            /\ end_chunk = r.end_chunk
            /\ data = r.data
            /\ map = r.map
            /\ begin_iterator = r.begin_iterator
            /\ end_iterator = r.end_iterator
            /\ heap = r.heap
            /\ trivial = tr
            /\ fault = ""
            /\ op = "deque"
            /\ threw = FALSE
            /\ path = {}
            /\ mr = <<>>
            /\ room = <<>>
            /\ eff = <<>>
            /\ call = <<>>
            /\ abs = [i \in 1..n |-> v]

\* __is_valid()
is_valid(d) ==
    /\ ~(0 > d.begin_chunk \/ d.begin_chunk > d.end_chunk \/ d.end_chunk > d.num_chunks)
    /\ ~(\/ MapAt(d.map, d.end_iterator.outer_pointer) = 0
         \/ PtrDiff(ChunkPtr(MapAt(d.map, d.end_iterator.outer_pointer)),
                    d.end_iterator.inner_pointer) >= CHUNK_SIZE)
    /\ ~(\/ d.begin_iterator.chunk_begin
                # ChunkPtr(MapAt(d.map, d.begin_iterator.outer_pointer))
         \/ d.begin_iterator.chunk_end
                # PtrAdd(ChunkPtr(MapAt(d.map, d.begin_iterator.outer_pointer)), CHUNK_SIZE))
    /\ ~(\/ d.end_iterator.chunk_begin
                # ChunkPtr(MapAt(d.map, d.end_iterator.outer_pointer))
         \/ d.end_iterator.chunk_end
                # PtrAdd(ChunkPtr(MapAt(d.map, d.end_iterator.outer_pointer)), CHUNK_SIZE))
    /\ \A p \in (-1)..(d.begin_chunk - 1) : d.map[p] = 0
    /\ \A p \in d.end_chunk..d.num_chunks : d.map[p] = 0
    /\ \A p \in d.begin_chunk..(d.end_chunk - 1) : d.map[p] # 0

\* the element slots in [begin_iterator, end_iterator)
LiveSlots ==
    {ElemPtr(Cur(NoFail), i) : i \in 0..(size(Cur(NoFail)) - 1)}

\* the constructed elements are those in [begin_iterator, end_iterator)
ConstructedAreLive ==
    \A c \in Allocated(heap) : \A o \in 0..(CHUNK_SIZE - 1) :
        (heap[c][o + 1] # 0) <=> ([c |-> c, o |-> o] \in LiveSlots)

\* A call is made only on a deque that executed no undefined behaviour, that
\* its validator accepts and whose elements are all constructed: a run ends
\* at the first state where one of these fails, and that state is still a
\* state of the run.
Live == fault = "" /\ is_valid(Cur(NoFail)) /\ ConstructedAreLive

\* the fallible calls of a run that ended in r without a failure: any one of
\* them may fail instead, the first being call 0
Failures(r) == 0..(Min(MaxFuel + 1, NoFail - r.fuel) - 1)

\* the call F named name is made on the deque with the arguments in, and
\* either no allocation and no constructor fails in it or one of them does; a
\* plain list would hold a after it
CallIn(F(_), name, a, in) ==
    \E c0 \in {Cur(NoFail)} : \E r0 \in {F(c0)} :
        \/ Becomes(c0, r0, name, a, in)
        \/ \E f \in Failures(r0) : \E c \in {Cur(f)} : Becomes(c, F(c), name, a, in)

Call(F(_), name, a) == CallIn(F, name, a, <<>>)

\* push_back(v) for a value v of V
PushBackOf(V) ==
    /\ Live
    /\ Len(abs) < MaxSize
    /\ \E v \in V :
          Call(LAMBDA c : push_back(c, v), "push_back", Append(abs, v))

\* push_front(v) for a value v of V
PushFrontOf(V) ==
    /\ Live
    /\ Len(abs) < MaxSize
    /\ \E v \in V :
          Call(LAMBDA c : push_front(c, v), "push_front", <<v>> \o abs)

PushBack == PushBackOf(Values)

PushFront == PushFrontOf(Values)

PushBackDistinct == PushBackOf(Distinct)

PushFrontDistinct == PushFrontOf(Distinct)

PopBack ==
    /\ Live
    /\ Len(abs) > 0
    /\ Call(LAMBDA c : pop_back(c), "pop_back", SubSeq(abs, 1, Len(abs) - 1))

PopFront ==
    /\ Live
    /\ Len(abs) > 0
    /\ Call(LAMBDA c : pop_front(c), "pop_front", Tail(abs))

ShrinkToFit ==
    /\ Live
    /\ Call(LAMBDA c : shrink_to_fit(c), "shrink_to_fit", abs)

Resize ==
    /\ Live
    /\ \E count \in 0..MaxSize :
          \E v \in IF count > Len(abs) THEN Values ELSE {1} :
              Call(LAMBDA c : resize(c, count, v), "resize",
                   [i \in 1..count |-> IF i <= Len(abs) THEN abs[i] ELSE v])

Clear ==
    /\ Live
    /\ Call(LAMBDA c : clear(c), "clear", <<>>)

\* the elements of a deque that is assigned to: none of them is an element
\* of Pattern
ListOf(n) == [k \in 1..n |-> Fresh]

\* the deque was constructed from a range that holds Pattern(n)
Pattern(n) == [k \in 1..n |-> ((k - 1) % MaxDistinct) + 1]

InitRange ==
    \E tr \in BOOLEAN, n \in 0..MaxListN :
        \E r \in {range_constructor(tr, Pattern(n), NoFail)} :
        \E ren \in {Renumber(r)} :
            /\ ~Stop(r)
            /\ num_chunks = r.num_chunks
            /\ begin_chunk = r.begin_chunk
            /\ end_chunk = r.end_chunk
            /\ data = 1
            /\ map = [i \in DOMAIN r.map |-> ren[r.map[i]]]
            /\ begin_iterator = RenIter(ren, r.begin_iterator)
            /\ end_iterator = RenIter(ren, r.end_iterator)
            /\ heap = RenHeap(ren, r.heap)
            /\ trivial = tr
            /\ fault = ""
            /\ op = "deque"
            /\ threw = FALSE
            /\ path = {}
            /\ mr = <<>>
            /\ room = <<>>
            /\ eff = <<>>
            /\ call = <<>>
            /\ abs = Pattern(n)

\* insert and erase are called on a deque right after its construction, or
\* on one of at most MaxSlide elements
Roomy == op = "deque" \/ Len(abs) <= MaxSlide

\* it = insert(begin() + i, count, v)
Insert ==
    /\ Live
    /\ Roomy
    /\ \E i \in 0..Len(abs) :
       \E count \in 1..Min(MaxCount, MaxInsertSize - Len(abs)) : \E v \in {Fresh} :
          CallIn(LAMBDA c : insert(c, IterPlus(c.map, c.begin_iterator, i), count, v),
                 "insert",
                 SubSeq(abs, 1, i) \o [k \in 1..count |-> v]
                     \o SubSeq(abs, i + 1, Len(abs)),
                 [pos |-> i, count |-> count, value |-> v])

\* it = erase(begin() + i, begin() + j)
Erase ==
    /\ Live
    /\ Roomy
    /\ \E i \in 0..Len(abs) : \E j \in i..Len(abs) :
          CallIn(LAMBDA c : erase(c, IterPlus(c.map, c.begin_iterator, i),
                                 IterPlus(c.map, c.begin_iterator, j)),
                 "erase",
                 SubSeq(abs, 1, i) \o SubSeq(abs, j + 1, Len(abs)),
                 [pos |-> i, all |-> i = 0 /\ j = Len(abs), none |-> i = j])

\* erase(it) for the iterator it that insert(pos, v) just returned
EraseReturned ==
    /\ Live
    /\ op = "insert" /\ ~threw
    /\ call.it # <<>>
    /\ call.in.count = 1
    /\ CallIn(LAMBDA c : erase_at(c, call.it), "erase(it)",
              SubSeq(abs, 1, call.in.pos) \o SubSeq(abs, call.in.pos + 2, Len(abs)),
              call.in)

Next ==
    \/ PushBack
    \/ PushFront
    \/ PopBack
    \/ PopFront
    \/ ShrinkToFit
    \/ Resize
    \/ Clear

Spec == Init /\ [][Next]_vars

------------------------------------------------------------------------------
\* The sized constructor: no deque exists yet, the arguments n and value of
\* deque(n, value) are chosen
InitCtor ==
    \E tr \in BOOLEAN, n \in 0..MaxCtorN, v \in Distinct :
        \E r \in {Blank(tr, NoFail)} :
            /\ num_chunks = r.num_chunks
            /\ begin_chunk = r.begin_chunk
            /\ end_chunk = r.end_chunk
            /\ data = r.data
            /\ map = r.map
            /\ begin_iterator = r.begin_iterator
            /\ end_iterator = r.end_iterator
            /\ heap = r.heap
            /\ trivial = tr
            /\ fault = ""
            /\ op = "new"
            /\ threw = FALSE
            /\ path = {}
            /\ mr = <<>>
            /\ room = <<>>
            /\ eff = <<>>
            /\ call = [in |-> [n |-> n, value |-> v], it |-> <<>>, before |-> <<>>]
            /\ abs = <<>>

\* deque(n, value)
Construct ==
    /\ op = "new"
    /\ CallIn(LAMBDA c : fill_helper(c.trivial, call.in.n, call.in.value, c.fuel),
              "deque(n, value)", [i \in 1..call.in.n |-> call.in.value], call.in)

NextCtor == Construct

SpecCtor == InitCtor /\ [][NextCtor]_vars

------------------------------------------------------------------------------
\* Copies of a deque constructed from a range, after pops

\* a deque as a call takes it: f fallible calls are left to succeed, and the
\* record of the calls that built it is dropped
Object(d, f) ==
    [d EXCEPT !.fuel = f, !.path = {}, !.nm = <<>>, !.mr = <<>>, !.ret = <<>>,
              !.room = <<>>, !.gap = <<>>]

\* deque copy(d) for the deque d of the state; the copy is the deque of the
\* next state
CopyConstruct ==
    /\ Live
    /\ \E in \in {[other |-> abs, this |-> <<>>, self |-> FALSE]} :
       \E c0 \in {Cur(NoFail)} : \E r0 \in {copy_constructor(c0, NoFail)} :
          \/ Becomes(c0, r0, "deque(other)", abs, in)
          \/ \E f \in 0..(Min(MaxCopyFuel + 1, NoFail - r0.fuel) - 1) :
                Becomes(Cur(f), copy_constructor(Cur(f), f), "deque(other)", abs, in)

\* a = d for the deque d of the state and a deque a constructed from a range
\* of n elements, or a that is d itself; a is the deque of the next state
CopyAssign ==
    /\ Live
    /\ \/ \E n \in 0..MaxAssignN :
          \E a \in {range_constructor(trivial, ListOf(n), NoFail)} :
          \E other \in {Cur(NoFail)} :
          \E in \in {[other |-> abs, this |-> ListOf(n), self |-> FALSE]} :
             /\ ~Stop(a)
             /\ \E r0 \in {copy_assignment(Object(a, NoFail), other, FALSE)} :
                   \/ Becomes(Object(a, NoFail), r0, "operator=", abs, in)
                   \/ \E f \in Failures(r0) :
                         Becomes(Object(a, f),
                                 copy_assignment(Object(a, f), other, FALSE),
                                 "operator=", abs, in)
       \/ CallIn(LAMBDA c : copy_assignment(c, c, TRUE), "operator=", abs,
                 [other |-> abs, this |-> abs, self |-> TRUE])

NextCopy ==
    \/ PopBack
    \/ PopFront
    \/ CopyConstruct
    \/ CopyAssign

SpecCopy == InitRange /\ [][NextCopy]_vars

------------------------------------------------------------------------------
\* The bulk movers of a trivially copyable T, called on the slots of a deque
\* constructed from a range of distinct values

InitMove ==
    \E n \in 1..MaxMoveN :
        \E r \in {Then([fill_helper(TRUE, 0, 1, NoFail) EXCEPT !.wide = TRUE],
                       LAMBDA d : insert_range(d, d.begin_iterator,
                                               [k \in 1..n |-> k]))} :
        \E ren \in {Renumber(r)} :
            /\ ~Stop(r)
            /\ num_chunks = r.num_chunks
            /\ begin_chunk = r.begin_chunk
            /\ end_chunk = r.end_chunk
            /\ data = 1
            /\ map = [i \in DOMAIN r.map |-> ren[r.map[i]]]
            /\ begin_iterator = RenIter(ren, r.begin_iterator)
            /\ end_iterator = RenIter(ren, r.end_iterator)
            /\ heap = RenHeap(ren, r.heap)
            /\ trivial = TRUE
            /\ fault = ""
            /\ op = "deque"
            /\ threw = FALSE
            /\ path = {}
            /\ mr = <<>>
            /\ room = <<>>
            /\ eff = <<>>
            /\ call = <<>>
            /\ abs = [k \in 1..n |-> k]

\* the mover named name was called with the arguments in and left x, the
\* deque and the iterator it returned; a move of the same elements one by one
\* leaves the deque ref and returns ref_it
Moved(name, in, x, ref, ref_it) ==
    /\ heap' = x.d.heap
    /\ fault' = x.d.fault
    /\ op' = name
    /\ call' = [in |-> in,
                it |-> x.dest,
                one_by_one |-> [fault |-> ref.fault, heap |-> ref.heap, it |-> ref_it]]
    /\ abs' = Elements(ref)
    /\ UNCHANGED <<num_chunks, begin_chunk, end_chunk, data, map, begin_iterator,
                   end_iterator, trivial, threw, path, mr, room, eff>>

\* deque_move_with_memmove(begin() + a, begin() + b, begin() + c), for a
\* destination that is not inside the source
MoveForward ==
    /\ op = "deque"
    /\ \E a \in 0..Len(abs) : \E b \in a..Len(abs) : \E c \in 0..(Len(abs) - (b - a)) :
       \E d \in {Cur(NoFail)} :
          /\ c <= a \/ c >= b
          /\ \E first \in {IterPlus(d.map, d.begin_iterator, a)} :
             \E last \in {IterPlus(d.map, d.begin_iterator, b)} :
             \E dest \in {IterPlus(d.map, d.begin_iterator, c)} :
                Moved("deque_move_with_memmove", [first |-> a, last |-> b, dest |-> c],
                      deque_move_with_memmove(d, first, last, dest),
                      try_move(d, first, last, dest),
                      IterPlus(d.map, dest, b - a))

\* deque_move_backwards_with_memmove(begin() + a, begin() + b, begin() + c),
\* for a destination end that is not inside the source
MoveBackward ==
    /\ op = "deque"
    /\ \E a \in 0..Len(abs) : \E b \in a..Len(abs) : \E c \in (b - a)..Len(abs) :
       \E d \in {Cur(NoFail)} :
          /\ c >= b \/ c <= a
          /\ \E first \in {IterPlus(d.map, d.begin_iterator, a)} :
             \E last \in {IterPlus(d.map, d.begin_iterator, b)} :
             \E d_last \in {IterPlus(d.map, d.begin_iterator, c)} :
                Moved("deque_move_backwards_with_memmove",
                      [first |-> a, last |-> b, dest |-> c],
                      deque_move_backwards_with_memmove(d, first, last, d_last),
                      try_move_backwards(d, first, last, d_last),
                      IterPlus(d.map, d_last, a - b))

NextMove ==
    \/ MoveForward
    \/ MoveBackward

SpecMove == InitMove /\ [][NextMove]_vars

------------------------------------------------------------------------------
\* clear and assign on a deque constructed from a range, after pops

\* assign(first, last) for a range that holds what the deque holds
Assign ==
    /\ Live
    /\ Call(LAMBDA c : assign(c, Elements(c)), "assign", abs)

NextClear ==
    \/ PopBack
    \/ PopFront
    \/ Clear
    \/ Assign

SpecClear == InitRange /\ [][NextClear]_vars

------------------------------------------------------------------------------
\* Growth at the two ends of a new deque: only pushes are called, push_back
\* of the value MaxDistinct and push_front of the value Fresh, so that the
\* contents tell which calls were made; the deque may grow to MaxGrow
\* elements in a map of MaxGrowChunks slots

\* push_back(MaxDistinct) with the larger bounds
GrowBack ==
    /\ Live
    /\ Len(abs) < MaxGrow
    /\ Call(LAMBDA c : push_back([c EXCEPT !.wide = TRUE], MaxDistinct),
            "push_back", Append(abs, MaxDistinct))

\* push_front(Fresh) with the larger bounds
GrowFront ==
    /\ Live
    /\ Len(abs) < MaxGrow
    /\ Call(LAMBDA c : push_front([c EXCEPT !.wide = TRUE], Fresh),
            "push_front", <<Fresh>> \o abs)

NextGrow ==
    \/ GrowBack
    \/ GrowFront

SpecGrow == Init /\ [][NextGrow]_vars

------------------------------------------------------------------------------
\* shrink_to_fit on a deque constructed from a range, after pops
NextShrink ==
    \/ PopBack
    \/ PopFront
    \/ ShrinkToFit

SpecShrink == InitRange /\ [][NextShrink]_vars

------------------------------------------------------------------------------
\* The deque's public operations restricted to the two ends
NextEnds ==
    \/ PushBackDistinct
    \/ PushFrontDistinct
    \/ PopBack
    \/ PopFront

SpecEnds == Init /\ [][NextEnds]_vars

------------------------------------------------------------------------------
\* insert and erase at any position
NextInsert ==
    \/ Insert
    \/ Erase
    \/ EraseReturned

SpecInsert == InitRange /\ [][NextInsert]_vars

------------------------------------------------------------------------------
\* Properties

\* C1: after every public operation, exit by exception included, a map slot
\* holds a chunk pointer exactly when it lies in [begin_chunk, end_chunk).
MapSlotsMatchRange ==
    \A i \in DOMAIN map : (map[i] # 0) <=> (begin_chunk <= i /\ i < end_chunk)

CursorCachesMatchMap ==
    \A it \in {begin_iterator, end_iterator} :
        /\ it.outer_pointer \in DOMAIN map
        /\ map[it.outer_pointer] # 0
        /\ it.chunk_begin = ChunkPtr(map[it.outer_pointer])
        /\ it.chunk_end = PtrAdd(ChunkPtr(map[it.outer_pointer]), CHUNK_SIZE)

\* a push_back crossed into the next chunk through make_room_end
EndCursorThroughMakeRoom ==
    /\ op = "push_back" /\ ~threw
    /\ "make_room_end" \in path
    /\ \/ "rearrange_end" \in path
       \/ "reallocate_end" \in path

\* C4: data <= begin_chunk <= end_chunk <= data + num_chunks, and the two
\* sentinel slots data[-1] and data[num_chunks] are null.
ChunkRangeInsideMap ==
    /\ 0 <= begin_chunk
    /\ begin_chunk <= end_chunk
    /\ end_chunk <= num_chunks
    /\ map[0 - 1] = 0
    /\ map[num_chunks] = 0

\* the live chunks were centred in the map by a push_front
ChunksCentred ==
    /\ op = "push_front" /\ ~threw
    /\ "rearrange_begin/center" \in path

\* C5: after every public mutator, exit by exception included, the slots in
\* [begin_iterator, end_iterator) hold constructed elements and every other
\* slot of an allocated chunk is raw.
LiveSlotsConstructed ==
    /\ \A p \in LiveSlots : ValidSlot(heap, p) /\ heap[p.c][p.o + 1] # 0
    /\ \A c \in Allocated(heap) : \A o \in 0..(CHUNK_SIZE - 1) :
          [c |-> c, o |-> o] \notin LiveSlots => heap[c][o + 1] = 0

\* C6: after any sequence of push_back, push_front, pop_back and pop_front
\* the elements read from begin_iterator to end_iterator are those of a plain
\* list that took the same calls, and size() is that list's length.
RefinesList ==
    /\ Elements(Cur(NoFail)) = abs
    /\ size(Cur(NoFail)) = Len(abs)

\* a pop_front left two different elements, the map having been rearranged
\* or reallocated at some point
ListAfterPops ==
    /\ op = "pop_front"
    /\ Len(abs) >= 2
    /\ abs[1] # abs[2]
    /\ begin_chunk # CHUNK_PADDING \div 2

\* C7: push_back, push_front, pop_back and pop_front leave every element that
\* is in the deque before and after the call at its address.
EndsKeepAddresses ==
    (op \in {"push_back", "push_front", "pop_back", "pop_front"} /\ fault = "") => eff.in_place

\* a push moved the chunk pointers to a map of another size while elements
\* were in the deque
PushedThroughReallocate ==
    /\ op \in {"push_back", "push_front"} /\ ~threw
    /\ path \cap {"reallocate_end", "reallocate_begin"} # {}
    /\ Len(abs) >= 2

\* C8: a push_back that filled the last slot of a chunk and failed to allocate
\* leaves the size and the contents as they were, end_iterator back on the
\* slot it designated, and that slot raw.
PushBackRollsBack ==
    (op = "push_back" /\ threw /\ "handle_chunk_end" \in path /\ fault = "")
        => /\ eff.size
           /\ eff.elements
           /\ eff.last
           /\ eff.end_raw
           /\ end_iterator.inner_pointer.o = CHUNK_SIZE - 1

\* a push_back failed to allocate after it filled the last slot of a chunk
PushBackFailedToAllocate ==
    /\ op = "push_back" /\ threw
    /\ path \cap {"handle_chunk_end/allocate", "reallocate_end/allocate"} # {}
    /\ Len(abs) >= 1

\* C9: a push_front that had to step to the previous chunk and failed leaves
\* begin_iterator on the element that was first, at slot 0 of its chunk, and
\* the size and the contents as they were.
PushFrontRollsBack ==
    (op = "push_front" /\ threw /\ "handle_chunk_begin" \in path /\ fault = "")
        => /\ eff.first
           /\ begin_iterator.inner_pointer = begin_iterator.chunk_begin
           /\ eff.size
           /\ eff.elements

\* a push_front selected the chunk before the first and its constructor threw
PushFrontConstructorThrew ==
    /\ op = "push_front" /\ threw
    /\ "handle_chunk_begin/construct" \in path
    /\ Len(abs) >= 1

\* C10: an allocation that fails inside reallocate_end or reallocate_begin
\* leaves data, num_chunks, begin_chunk, end_chunk, every map slot, both
\* cursors and the element sequence as they were on entry to make_room_*.
ReallocateRollsBack ==
    (threw /\ mr # <<>> /\ path \cap {"reallocate_end", "reallocate_begin"} # {})
        => /\ mr.data
           /\ mr.num_chunks
           /\ mr.begin_chunk
           /\ mr.end_chunk
           /\ mr.map
           /\ mr.begin_iterator
           /\ mr.end_iterator
           /\ mr.elements

\* the allocation of a chunk failed inside reallocate_end or reallocate_begin
ReallocateFailedOnChunk ==
    /\ threw
    /\ path \cap {"reallocate_end/allocate", "reallocate_begin/allocate"} # {}

\* C14: insert(begin() + i, c, v) on the contents s leaves s[0..i), c copies
\* of v and s[i..|s|) in this order, and returns an iterator to index i.
InsertPlacesCopies ==
    (op = "insert" /\ ~threw)
        => /\ fault = ""
           /\ Elements(Cur(NoFail)) = abs
           /\ size(Cur(NoFail)) = Len(abs)
           /\ abs = SubSeq(call.before, 1, call.in.pos)
                    \o [k \in 1..call.in.count |-> call.in.value]
                    \o SubSeq(call.before, call.in.pos + 1, Len(call.before))
           /\ call.it = IterPlus(map, begin_iterator, call.in.pos)

\* two copies were inserted between two elements, the elements after the
\* gap moved across a chunk boundary into a chunk the call allocated
InsertedAcrossChunks ==
    /\ op = "insert" /\ ~threw
    /\ call.in.count >= 2
    /\ call.in.pos \in 1..(Len(call.before) - 1)
    /\ "insert_shift_end/move" \in path
    /\ path \cap {"reallocate_end", "rearrange_end", "insert_shift_end/allocate"} # {}

\* C15: erase(begin() + i, begin() + j) on the contents s leaves s[0..i)
\* followed by s[j..|s|) and returns an iterator to index i; when it erases
\* everything the deque is empty and its validator accepts it.
EraseRemovesRange ==
    (op = "erase")
        => /\ fault = "" /\ ~threw
           /\ Elements(Cur(NoFail)) = abs
           /\ size(Cur(NoFail)) = Len(abs)
           /\ call.it = IterPlus(map, begin_iterator, call.in.pos)
           /\ call.in.all
                 => /\ begin_iterator.inner_pointer = end_iterator.inner_pointer
                    /\ is_valid(Cur(NoFail))
                    /\ ConstructedAreLive

\* an erase removed elements from the middle of the contents
ErasedInside ==
    /\ op = "erase"
    /\ call.in.pos \in 1..(Len(abs) - 1)
    /\ ~call.in.none

\* C16: it = insert(pos, v) followed by erase(it) leaves the element
\* sequence that was there before the insert.
InsertEraseRestores ==
    (op = "erase(it)")
        => /\ fault = "" /\ ~threw
           /\ Elements(Cur(NoFail)) = call.before
           /\ size(Cur(NoFail)) = Len(call.before)

\* the value was inserted between two elements and erased again
InsertedInsideAndErased ==
    /\ op = "erase(it)"
    /\ call.in.pos \in 1..(Len(call.before) - 1)
    /\ path \cap {"erase_shift_begin", "erase_shift_end"} # {}

\* C13: if anything throws during an insert between two elements, the size
\* and the element sequence are as before the call.
InsertRollsBack ==
    (op = "insert" /\ threw /\ call.in.pos \in 1..(Len(call.before) - 1))
        => /\ fault = ""
           /\ eff.size
           /\ eff.elements

\* C18: pop_back and pop_front leave num_chunks, data, begin_chunk, end_chunk,
\* every map slot and the set of allocated chunks as they were; pop_back
\* leaves the begin cursor and pop_front the end cursor where it was.
PopsKeepChunks ==
    (op \in {"pop_back", "pop_front"})
        => /\ fault = "" /\ ~threw
           /\ eff.same.num_chunks
           /\ eff.same.data
           /\ eff.same.begin_chunk
           /\ eff.same.end_chunk
           /\ eff.same.map
           /\ eff.allocated
           /\ op = "pop_back" => eff.same.begin_iterator
           /\ op = "pop_front" => eff.same.end_iterator

\* pop_front removed the last element of a chunk: the begin cursor is at the
\* first slot of the next chunk and the chunk it left is still in the map
PoppedLastOfChunk ==
    /\ op = "pop_front"
    /\ begin_iterator.inner_pointer.o = 0
    /\ begin_iterator.outer_pointer - 1 >= begin_chunk
    /\ map[begin_iterator.outer_pointer - 1] # 0
    /\ heap[map[begin_iterator.outer_pointer - 1]] = RawChunk

\* C12: a shrink_to_fit in which an allocation fails leaves num_chunks, data,
\* begin_chunk, end_chunk, the map slots, the allocated chunks, the cursors
\* and the placement of the elements as they were.
ShrinkRollsBack ==
    (op = "shrink_to_fit" /\ threw)
        => /\ fault = ""
           /\ eff.same.num_chunks
           /\ eff.same.data
           /\ eff.same.begin_chunk
           /\ eff.same.end_chunk
           /\ eff.same.map
           /\ eff.allocated
           /\ eff.same.begin_iterator
           /\ eff.same.end_iterator
           /\ eff.same.heap

\* C17: shrink_to_fit leaves size() and the element sequence as they were,
\* and a shrink_to_fit right after a shrink_to_fit changes nothing: num_chunks,
\* data, begin_chunk, end_chunk, the map slots, the cursors and every chunk
\* are as the first call left them.
ShrinkKeepsContents ==
    (op = "shrink_to_fit")
        => /\ fault = ""
           /\ eff.size
           /\ eff.elements
           /\ Elements(Cur(NoFail)) = abs
           /\ eff.again
                 => /\ ~threw
                    /\ eff.same.num_chunks
                    /\ eff.same.data
                    /\ eff.same.begin_chunk
                    /\ eff.same.end_chunk
                    /\ eff.same.map
                    /\ eff.same.begin_iterator
                    /\ eff.same.end_iterator
                    /\ eff.same.heap

\* shrink_to_fit was called right after a shrink_to_fit that had moved three
\* elements to the front of their chunk into a smaller map
ShrunkTwice ==
    /\ op = "shrink_to_fit"
    /\ eff.again
    /\ num_chunks < CHUNK_PADDING + 1
    /\ Len(abs) = 3
    /\ abs[1] # abs[2]

MapSizeRoundsUp ==
    (op = "deque(n, value)" /\ ~threw)
        => /\ fault = ""
           /\ num_chunks = CHUNK_PADDING
                            + (call.in.n + CHUNK_SIZE + CHUNK_SIZE - 1) \div CHUNK_SIZE

\* C19: deque(n, value) creates a map of
\* CHUNK_PADDING + floor((n + CHUNK_SIZE) / CHUNK_SIZE) addressable slots,
\* between two sentinel slots.
MapSizeRoundsDown ==
    (op = "deque(n, value)" /\ ~threw)
        => /\ fault = ""
           /\ num_chunks = CHUNK_PADDING + (call.in.n + CHUNK_SIZE) \div CHUNK_SIZE
           /\ DOMAIN map = (0 - 1)..num_chunks

\* a deque was constructed with more elements than a chunk holds, and their
\* number is no multiple of CHUNK_SIZE
ConstructedWithPartChunk ==
    /\ op = "deque(n, value)" /\ ~threw
    /\ call.in.n > CHUNK_SIZE
    /\ call.in.n % CHUNK_SIZE # 0

\* C20: after deque(n, value), size() is n, begin_iterator is at slot 0 of the
\* chunk in map slot CHUNK_PADDING / 2, floor(n / CHUNK_SIZE) + 1 chunks are
\* allocated, in consecutive map slots, at least CHUNK_PADDING / 2 null slots
\* are on each side of them, and end_iterator is in an allocated chunk; for
\* n = 0 the two cursors are equal.
ConstructedLayout ==
    (op = "deque(n, value)" /\ ~threw)
        => /\ fault = ""
           /\ size(Cur(NoFail)) = call.in.n
           /\ Elements(Cur(NoFail)) = [i \in 1..call.in.n |-> call.in.value]
           /\ begin_iterator.outer_pointer = CHUNK_PADDING \div 2
           /\ begin_iterator.inner_pointer = ChunkPtr(map[CHUNK_PADDING \div 2])
           /\ Cardinality(Allocated(heap)) = call.in.n \div CHUNK_SIZE + 1
           /\ end_chunk - begin_chunk = call.in.n \div CHUNK_SIZE + 1
           /\ \A i \in 0..(num_chunks - 1) :
                 (i \in begin_chunk..(end_chunk - 1)) <=> (map[i] # 0)
           /\ begin_chunk >= CHUNK_PADDING \div 2
           /\ num_chunks - end_chunk >= CHUNK_PADDING \div 2
           /\ ValidSlot(heap, end_iterator.inner_pointer)
           /\ call.in.n = 0 => begin_iterator = end_iterator
           /\ is_valid(Cur(NoFail))

\* a deque was constructed with as many elements as two chunks hold: its
\* end_iterator is at slot 0 of a third chunk
ConstructedFullChunks ==
    /\ op = "deque(n, value)" /\ ~threw
    /\ call.in.n = 2 * CHUNK_SIZE
    /\ end_iterator.inner_pointer = ChunkPtr(map[end_chunk - 1])

\* C21: a deque made by deque(other) and a deque assigned to by operator=,
\* copied in place or copied and swapped, holds the elements of other in
\* their order, and no call executes undefined behaviour.
CopiesHoldTheElements ==
    (op \in {"deque(other)", "operator="} /\ ~threw)
        => /\ fault = ""
           /\ Elements(Cur(NoFail)) = call.in.other
           /\ size(Cur(NoFail)) = Len(call.in.other)
           /\ abs = call.in.other

\* a deque of three elements that are not all equal was assigned in place to
\* a deque that held other elements
AssignedInPlace ==
    /\ op = "operator=" /\ ~threw
    /\ "operator=/in place" \in path
    /\ Len(call.in.other) = 3
    /\ call.in.other[1] # call.in.other[2]
    /\ Len(call.in.this) > 0

\* C22: clear() leaves an empty deque whose two cursors are equal and are
\* floor(capacity / 2) slots after the start of the first allocated chunk,
\* for capacity the number of slots of the allocated chunks; it keeps
\* num_chunks, begin_chunk, end_chunk, the map and the set of allocated chunks.
\* clear() followed by the insertion of the former contents, which is
\* assign(first, last), leaves the contents it found.
ClearCentresAndAssignRestores ==
    /\ (op = "clear")
          => /\ fault = "" /\ ~threw
             /\ size(Cur(NoFail)) = 0
             /\ begin_iterator = end_iterator
             /\ map[begin_iterator.outer_pointer] # 0
             /\ begin_iterator.chunk_begin = ChunkPtr(map[begin_iterator.outer_pointer])
             /\ (begin_iterator.outer_pointer - begin_chunk) * CHUNK_SIZE
                    + PtrDiff(begin_iterator.inner_pointer, begin_iterator.chunk_begin)
                = ((end_chunk - begin_chunk) * CHUNK_SIZE) \div 2
             /\ eff.same.num_chunks /\ eff.same.data /\ eff.same.begin_chunk
             /\ eff.same.end_chunk /\ eff.same.map /\ eff.allocated
             /\ \A c \in Allocated(heap) : heap[c] = RawChunk
    /\ (op = "assign" /\ ~threw)
          => /\ fault = ""
             /\ eff.elements /\ eff.size
             /\ Elements(Cur(NoFail)) = abs

\* assign(first, last) cleared three chunks and inserted again the three
\* elements it found, which are not all equal
AssignedFormerContents ==
    /\ op = "assign" /\ ~threw
    /\ Len(abs) = 3 /\ abs[1] # abs[2]
    /\ end_chunk - begin_chunk >= 3

\* C23: in a run of push_back and push_front on a new deque, push_back calls
\* make_room_end only when end_iterator is in the last slot of the chunk of
\* the last map slot, push_front calls make_room_begin only when
\* begin_iterator is at slot 0 of the chunk of map slot 0, and a push that
\* calls neither leaves num_chunks and the map array as they are.
PushesReallocateOnlyAtTheEdge ==
    [][/\ (op' = "push_back" /\ "make_room_end" \in path')
            => /\ end_iterator.outer_pointer = num_chunks - 1
               /\ end_iterator.inner_pointer
                      = PtrAdd(end_iterator.chunk_begin, CHUNK_SIZE - 1)
       /\ (op' = "push_front" /\ "make_room_begin" \in path')
            => /\ begin_iterator.outer_pointer = 0
               /\ map[0] # 0
               /\ begin_iterator.inner_pointer = ChunkPtr(map[0])
       /\ (/\ op' \in {"push_back", "push_front"}
           /\ "make_room_end" \notin path' /\ "make_room_begin" \notin path')
            => /\ num_chunks' = num_chunks
               /\ DOMAIN map' = DOMAIN map
               /\ "reallocate_end" \notin path' /\ "reallocate_begin" \notin path'
               /\ "rearrange_end" \notin path' /\ "rearrange_begin" \notin path'
      ]_vars

\* pushes at both ends were made before a push_back reallocated the map
AlternatedUntilReallocation ==
    /\ op = "push_back" /\ ~threw
    /\ "reallocate_end" \in path
    /\ \E i \in DOMAIN abs : abs[i] = Fresh
    /\ Len(abs) >= 2 * CHUNK_SIZE

\* C24: in a run of push_back calls only, and in a run of push_front calls
\* only, a call that replaces the map array leaves num_chunks at least twice
\* what it was.
GrowthAtLeastDoubles ==
    [][(/\ op' \in {"push_back", "push_front"}
        /\ "reallocate_end" \in path' \/ "reallocate_begin" \in path'
        /\ ~threw'
        /\ \/ \A i \in DOMAIN abs' : abs'[i] # Fresh
           \/ \A i \in DOMAIN abs' : abs'[i] # MaxDistinct)
          => /\ fault' = ""
             /\ num_chunks' >= 2 * num_chunks
      ]_vars

\* a run of push_back calls only has replaced the map array a second time
GrewTwiceAtTheBack ==
    /\ op = "push_back" /\ ~threw
    /\ "reallocate_end" \in path
    /\ \A i \in DOMAIN abs : abs[i] # Fresh
    /\ num_chunks > MaxNumChunks

\* C25: make_room_end(k) computes active_chunks as end_iterator_chunk
\* - begin_iterator.outer_pointer + k, for end_iterator_chunk one past
\* end_iterator.outer_pointer unless end_iterator.inner_pointer is null; when
\* active_chunks <= floor(num_chunks / 3) it rearranges the map in place and
\* num_chunks and the map array stay, otherwise it replaces the map array by
\* one of 3 * active_chunks slots.
MakeRoomEndRearrangesOrTriples ==
    (room # <<>> /\ room.side = "end")
        => \E active \in {(IF room.end_null THEN room.end_outer ELSE room.end_outer + 1)
                            - room.begin_outer + room.k} :
              IF active <= room.num_chunks \div 3
              THEN /\ "rearrange_end" \in path /\ "reallocate_end" \notin path
                   /\ room.new_num_chunks = room.num_chunks
                   /\ room.same_array
                   /\ num_chunks = room.num_chunks
              ELSE /\ "reallocate_end" \in path /\ "rearrange_end" \notin path
                   /\ room.new_num_chunks = 3 * active
                   /\ ~room.same_array
                   /\ num_chunks = 3 * active

\* an insert made room for two chunks after the live ones by rearranging
\* the map in place
RearrangedForTwoChunks ==
    /\ room # <<>> /\ room.side = "end"
    /\ room.k = 2
    /\ "rearrange_end" \in path

\* C26: when make_room_end(k) returns, from either branch, the k map slots
\* after the last chunk of the live range are slots of the map array and each
\* holds an allocated chunk.
MakeRoomEndReserves ==
    (room # <<>> /\ room.side = "end") => room.reserved

\* make_room_end replaced the map array for two chunks after the live ones
\* and allocated none: free chunks the deque had were taken
ReallocatedEndReusingChunks ==
    /\ room # <<>> /\ room.side = "end"
    /\ "reallocate_end" \in path /\ "reallocate_end/allocate" \notin path
    /\ room.k = 2

\* C27: when make_room_begin(k) returns, from either branch, the k map slots
\* before begin_iterator.outer_pointer are slots of the map array and each
\* holds an allocated chunk.
MakeRoomBeginReserves ==
    (room # <<>> /\ room.side = "begin") => room.reserved

\* make_room_begin made room for two chunks by rearranging the map in place
RearrangedBeginForTwoChunks ==
    /\ room # <<>> /\ room.side = "begin"
    /\ room.k = 2
    /\ "rearrange_begin" \in path

\* C28: after reallocate_end(k) begin_iterator.outer_pointer is active_chunks
\* in a map of 3 * active_chunks slots; after reallocate_begin(k) it is
\* active_chunks + k.
ReallocationCentres ==
    (room # <<>>
     /\ path \cap {"reallocate_end", "reallocate_begin"} # {})
        => \E active \in {(IF room.side = "end" /\ room.end_null
                            THEN room.end_outer ELSE room.end_outer + 1)
                            - room.begin_outer + room.k} :
              /\ room.new_num_chunks = 3 * active
              /\ room.new_begin_outer
                    = IF room.side = "end" THEN active ELSE active + room.k

\* reallocate_begin made room for two chunks
ReallocatedBeginForTwoChunks ==
    /\ room # <<>> /\ room.side = "begin"
    /\ room.k = 2
    /\ "reallocate_begin" \in path

\* C29: make_room_end and make_room_begin leave the chunks of the live range
\* the same chunks in the same order, the two cursors on the element slots
\* they were on, and every element slot holding what it held.
MakeRoomKeepsLiveRange ==
    (room # <<>>)
        => /\ room.live
           /\ room.begin_slot
           /\ room.end_slot
           /\ room.elements

\* make_room_end rearranged a map in place whose live range spans two map
\* slots or more and moved its chunks to other slots of the same array
RearrangedTwoLiveChunks ==
    /\ room # <<>> /\ room.side = "end"
    /\ "rearrange_end" \in path
    /\ room.new_begin_outer # room.begin_outer
    /\ room.end_outer > room.begin_outer

\* C31: when a public operation returns or throws, the chunks the element
\* allocator has handed out and not taken back are the pointers in the map
\* slots of [begin_chunk, end_chunk), and no two of those slots hold the same
\* chunk.
ChunksExclusivelyOwned ==
    fault = ""
        => /\ Allocated(heap) = {map[i] : i \in begin_chunk..(end_chunk - 1)}
           /\ \A i, j \in begin_chunk..(end_chunk - 1) : map[i] = map[j] => i = j

\* C39: when a sized, fill or copy constructor throws, every chunk it
\* allocated has been deallocated, once.
FailedConstructorReleasesChunks ==
    (op \in {"deque(n, value)", "deque(other)"} /\ threw)
        => /\ fault = ""
           /\ Allocated(heap) = {}

\* C32: an insert at index pos of a deque of size elements leaves the
\* elements from pos on at their addresses and moves those before pos when
\* 2 * pos <= size, and otherwise leaves the elements before pos at their
\* addresses and moves those from pos on.
InsertShiftsNearerSide ==
    (op = "insert" /\ ~threw /\ fault = "")
        => IF 2 * call.in.pos <= call.size
           THEN call.kept = call.in.pos..(call.size - 1)
           ELSE call.kept = 0..(call.in.pos - 1)

\* two copies were inserted behind the middle of a deque, before its last
\* element
InsertedBehindTheMiddle ==
    /\ op = "insert" /\ ~threw /\ fault = ""
    /\ call.in.count = 2
    /\ 2 * call.in.pos > call.size
    /\ call.in.pos < call.size

\* C33: an erase of the elements [first, last) of a deque of size elements
\* moves only the first elements before them when first is less than
\* size - last and only the size - last elements after them when that is
\* less; an erase of the first or of the last element alone moves no element.
EraseMovesSmallerSide ==
    (op \in {"erase", "erase(it)"} /\ ~threw /\ fault = "")
        => \E first \in {call.in.pos} :
           \E last \in {call.in.pos + call.size - size(Cur(NoFail))} :
              last > first
                 => /\ first < call.size - last
                         => call.kept = last..(call.size - 1)
                    /\ call.size - last < first
                         => call.kept = 0..(first - 1)
                    /\ (last = first + 1 /\ (first = 0 \/ last = call.size))
                         => call.kept = (0..(call.size - 1)) \ {first}

MemmoveMovesAsOneByOne ==
    (op \in {"deque_move_with_memmove", "deque_move_backwards_with_memmove"})
        => /\ fault = ""
           /\ call.one_by_one.fault = ""
           /\ heap = call.one_by_one.heap
           /\ call.it = call.one_by_one.it

\* elements of three chunks were moved backwards to slots at the other
\* offset in their chunks, and the source ended on a chunk boundary
MovedBackwardsAcrossChunks ==
    /\ op = "deque_move_backwards_with_memmove"
    /\ call.in.last - call.in.first >= 2 * CHUNK_SIZE
    /\ (call.in.dest - call.in.last) % CHUNK_SIZE = 1
    /\ call.it.inner_pointer = call.it.chunk_begin
    /\ IterPlus(map, begin_iterator, call.in.last).inner_pointer
           = IterPlus(map, begin_iterator, call.in.last).chunk_begin

\* needed_capacity + CHUNK_SIZE > occupied_capacity, in the current state
AlreadyTight ==
    size(Cur(NoFail)) + 1 + CHUNK_SIZE
        > (end_iterator.outer_pointer + 1 - begin_iterator.outer_pointer) * CHUNK_SIZE

\* occupied_capacity == ghost_capacity || occupied_capacity <= minimum_capacity
MapIsTight ==
    \E occupied \in {(end_iterator.outer_pointer + 1 - begin_iterator.outer_pointer)
                        * CHUNK_SIZE} :
        \/ occupied = num_chunks * CHUNK_SIZE
        \/ occupied <= CHUNK_PADDING * CHUNK_SIZE

\* C36 as stated: a shrink_to_fit called when size() + 1 + CHUNK_SIZE exceeds
\* the occupied capacity returns without changing anything: num_chunks, data,
\* begin_chunk, end_chunk, the map slots, the cursors and every chunk are as
\* before the call.
ShrinkReturnsWhenTight ==
    [][(op' = "shrink_to_fit" /\ Live /\ AlreadyTight)
          => /\ ~threw'
             /\ fault' = ""
             /\ eff'.same.num_chunks
             /\ eff'.same.data
             /\ eff'.same.begin_chunk
             /\ eff'.same.end_chunk
             /\ eff'.same.map
             /\ eff'.same.begin_iterator
             /\ eff'.same.end_iterator
             /\ eff'.same.heap]_vars

\* C36: a shrink_to_fit called when size() + 1 + CHUNK_SIZE exceeds the
\* occupied capacity, and the occupied capacity either is the whole map's
\* (num_chunks * CHUNK_SIZE) or is at most CHUNK_PADDING * CHUNK_SIZE, returns
\* without changing anything: num_chunks, data, begin_chunk, end_chunk, the
\* map slots, the cursors and every chunk are as before the call.
ShrinkReturnsWhenTightInTightMap ==
    [][(op' = "shrink_to_fit" /\ Live /\ AlreadyTight /\ MapIsTight)
          => /\ ~threw'
             /\ fault' = ""
             /\ "shrink_to_fit/tight" \in path'
             /\ eff'.same.num_chunks
             /\ eff'.same.data
             /\ eff'.same.begin_chunk
             /\ eff'.same.end_chunk
             /\ eff'.same.map
             /\ eff'.same.begin_iterator
             /\ eff'.same.end_iterator
             /\ eff'.same.heap]_vars

\* shrink_to_fit returned early from a deque of two elements that keeps a
\* spare chunk next to the occupied ones
ShrunkNothingWithSpareChunk ==
    /\ op = "shrink_to_fit"
    /\ "shrink_to_fit/tight" \in path
    /\ AlreadyTight
    /\ MapIsTight
    /\ Len(abs) = 2
    /\ end_chunk - begin_chunk
          > end_iterator.outer_pointer + 1 - begin_iterator.outer_pointer

\* C37: after a shrink_to_fit that did not return early, num_chunks is
\* ceil((size() + 1) / CHUNK_SIZE), begin_chunk is data and end_chunk is
\* data + num_chunks, every map slot holds an allocated chunk, the allocated
\* chunks are those from begin_iterator's chunk through end_iterator's chunk,
\* which fill the map, and no chunk pointer was written outside the new map.
ShrinkFitsTheMap ==
    (op = "shrink_to_fit" /\ ~threw /\ "shrink_to_fit/tight" \notin path)
        => /\ fault = ""
           /\ num_chunks = (size(Cur(NoFail)) + 1 + CHUNK_SIZE - 1) \div CHUNK_SIZE
           /\ begin_chunk = 0
           /\ end_chunk = num_chunks
           /\ DOMAIN map = (-1)..num_chunks
           /\ \A i \in 0..(num_chunks - 1) : map[i] \in Allocated(heap)
           /\ \A i, j \in 0..(num_chunks - 1) : map[i] = map[j] => i = j
           /\ begin_iterator.outer_pointer = 0
           /\ end_iterator.outer_pointer = num_chunks - 1
           /\ Allocated(heap) = {map[i] : i \in 0..(num_chunks - 1)}
           /\ eff.elements

\* shrink_to_fit moved three elements to the front of their chunk, freed the
\* chunk end_iterator was in and the spare ones, and left a map of two slots
ShrunkByCompaction ==
    /\ op = "shrink_to_fit"
    /\ ~threw
    /\ "shrink_to_fit/compact" \in path
    /\ ~eff.allocated
    /\ Len(abs) = 3
    /\ num_chunks = 2

\* C38: after a copy assignment that took the in-place path, end_iterator
\* designates a slot of an allocated chunk among the chunks of the destination
\* (also when other.size() is (end_chunk - begin_chunk) * CHUNK_SIZE), and the
\* destination has the num_chunks, the chunk range and the number of
\* allocated chunks it had before the assignment.
InPlaceAssignmentEndsInChunk ==
    (op = "operator=" /\ ~threw /\ "operator=/in place" \in path)
        => /\ fault = ""
           /\ end_iterator.outer_pointer \in begin_chunk..(end_chunk - 1)
           /\ ValidSlot(heap, end_iterator.inner_pointer)
           /\ end_iterator.inner_pointer.c = map[end_iterator.outer_pointer]
           /\ end_iterator.inner_pointer.c \in Allocated(heap)
           /\ \E a \in {range_constructor(trivial, call.in.this, NoFail)} :
                 /\ num_chunks = a.num_chunks
                 /\ begin_chunk = a.begin_chunk
                 /\ end_chunk = a.end_chunk
                 /\ Cardinality(Allocated(heap)) = Cardinality(Allocated(a.heap))

====
